---- MODULE Spec2Model ----
(***************************************************************************)
(* Model of the record-to-listing pipeline of src/app.py:                  *)
(* generate_xml_feed and the helpers it calls, the /generate-feed handler  *)
(* around it, and the versions of both in src/main.py.                     *)
(*                                                                         *)
(* Python values are modelled as tagged records (PyNone, PyStr, PyInt).    *)
(* A Python string is a sequence of chunks; the chunks of input data are   *)
(* single characters, a template tag such as {{currency}} is one chunk,    *)
(* and the literal pieces of an f-string are one chunk each.               *)
(* A Python dict is a function from its keys to values.                    *)
(* An exception is the name of its class; "" means nothing was raised.     *)
(***************************************************************************)
EXTENDS Integers, Sequences, FiniteSets, TLC

\* ------------------------------------------------------------ bounds
\* Largest number of records in the input list.
MaxRecords == 3
\* Largest number of records in a list drawn from one of the large families
\* of records (RecordsFields, RecordsXsd).
MaxFamilyRecords == 1

\* ------------------------------------------------------------ Python values
PyNone == [k |-> "none", s |-> <<>>, n |-> 0]
PyStr(s) == [k |-> "str", s |-> s, n |-> 0]
PyInt(n) == [k |-> "int", s |-> <<>>, n |-> n]

\* dict.get(key) and dict.get(key, default)
Get(d, key) == IF key \in DOMAIN d THEN d[key] ELSE PyNone
GetOr(d, key, default) == IF key \in DOMAIN d THEN d[key] ELSE default

\* Python truthiness of a scalar: None, '' and 0 are false.
Truthy(v) ==
  CASE v.k = "none" -> FALSE
    [] v.k = "str" -> v.s # <<>>
    [] v.k = "int" -> v.n # 0

Digits == <<"0", "1", "2", "3", "4", "5", "6", "7", "8", "9">>

\* str(n) for an integer n
RECURSIVE IntToStr(_)
IntToStr(n) ==
  IF n < 0 THEN <<"-">> \o IntToStr(0 - n)
  ELSE IF n < 10 THEN <<Digits[n + 1]>>
  ELSE IntToStr(n \div 10) \o <<Digits[(n % 10) + 1]>>

\* str(v)
StrOf(v) ==
  CASE v.k = "none" -> <<"None">>
    [] v.k = "str" -> v.s
    [] v.k = "int" -> IntToStr(v.n)

\* BULLET stands for the bullet glyph U+2022.
BULLET == "BULLET"
\* NUL stands for a control character, which lxml refuses in element text.
NUL == "NUL"
IsSpace(c) == c \in {" ", "\n", "\r", "\t"}

RECURSIVE LStrip(_)
LStrip(s) == IF s # <<>> /\ IsSpace(Head(s)) THEN LStrip(Tail(s)) ELSE s

RECURSIVE RStrip(_)
RStrip(s) ==
  IF s # <<>> /\ IsSpace(s[Len(s)]) THEN RStrip(SubSeq(s, 1, Len(s) - 1)) ELSE s

\* str.strip()
Strip(s) == RStrip(LStrip(s))

UpperMap ==
  [c \in {"a", "b", "c", "d", "e", "f", "g", "h", "i", "j", "k", "l", "m",
          "n", "o", "p", "q", "r", "s", "t", "u", "v", "w", "x", "y", "z"} |->
    CASE c = "a" -> "A" [] c = "b" -> "B" [] c = "c" -> "C" [] c = "d" -> "D"
      [] c = "e" -> "E" [] c = "f" -> "F" [] c = "g" -> "G" [] c = "h" -> "H"
      [] c = "i" -> "I" [] c = "j" -> "J" [] c = "k" -> "K" [] c = "l" -> "L"
      [] c = "m" -> "M" [] c = "n" -> "N" [] c = "o" -> "O" [] c = "p" -> "P"
      [] c = "q" -> "Q" [] c = "r" -> "R" [] c = "s" -> "S" [] c = "t" -> "T"
      [] c = "u" -> "U" [] c = "v" -> "V" [] c = "w" -> "W" [] c = "x" -> "X"
      [] c = "y" -> "Y" [] c = "z" -> "Z"]

\* str.upper()
Upper(s) == [j \in 1..Len(s) |-> IF s[j] \in DOMAIN UpperMap THEN UpperMap[s[j]] ELSE s[j]]

\* str.startswith(prefix)
StartsWith(s, prefix) ==
  Len(s) >= Len(prefix) /\ SubSeq(s, 1, Len(prefix)) = prefix

\* sub in s, for a non-empty sub
RECURSIVE Contains(_, _)
Contains(s, sub) ==
  IF Len(s) < Len(sub) THEN FALSE
  ELSE IF StartsWith(s, sub) THEN TRUE
  ELSE Contains(Tail(s), sub)

\* str.replace(old, new): every non-overlapping occurrence, left to right;
\* the inserted text is not scanned again.
RECURSIVE Replace(_, _, _)
Replace(s, old, new) ==
  IF Len(s) < Len(old) THEN s
  ELSE IF StartsWith(s, old)
    THEN new \o Replace(SubSeq(s, Len(old) + 1, Len(s)), old, new)
  ELSE <<Head(s)>> \o Replace(Tail(s), old, new)

\* ------------------------------------------------------------ int(float(x))
IsDigit(c) == c \in {"0", "1", "2", "3", "4", "5", "6", "7", "8", "9"}
AllDigits(s) == \A j \in 1..Len(s) : IsDigit(s[j])
DigitVal(c) == CHOOSE d \in 0..9 : Digits[d + 1] = c

RECURSIVE DigitsVal(_)
DigitsVal(s) ==
  IF s = <<>> THEN 0 ELSE 10 * DigitsVal(SubSeq(s, 1, Len(s) - 1)) + DigitVal(s[Len(s)])

\* position of the first chunk of s that is in set cs, 0 if none
RECURSIVE IndexOf(_, _)
IndexOf(s, cs) ==
  IF s = <<>> THEN 0
  ELSE IF Head(s) \in cs THEN 1
  ELSE LET r == IndexOf(Tail(s), cs) IN IF r = 0 THEN 0 ELSE r + 1

RECURSIVE DropLeadingZeros(_)
DropLeadingZeros(s) ==
  IF s # <<>> /\ Head(s) = "0" THEN DropLeadingZeros(Tail(s)) ELSE s

\* A double overflows to infinity beyond about 1.8e308: a decimal literal with
\* more integer digits than this is read as inf.
FloatMaxDigits == 309

\* float(text) is [kind |-> "num" | "inf" | "nan" | "err", neg, trunc], where
\* trunc is the magnitude truncated toward zero (all that int() keeps).
FloatResult(kind, neg, trunc) == [kind |-> kind, neg |-> neg, trunc |-> trunc]

\* the integer digits sig, fraction digits fp, decimal exponent e
FloatOfDigits(neg, sig, fp, e) ==
  IF sig = <<>> /\ DropLeadingZeros(fp) = <<>> THEN FloatResult("num", neg, 0)
  ELSE IF Len(sig) + e > FloatMaxDigits THEN FloatResult("inf", neg, 0)
  ELSE IF e >= 0
    THEN FloatResult("num", neg,
           DigitsVal(DropLeadingZeros(
             sig \o [j \in 1..e |-> IF j <= Len(fp) THEN fp[j] ELSE "0"])))
  ELSE IF 0 - e >= Len(sig) THEN FloatResult("num", neg, 0)
  ELSE FloatResult("num", neg, DigitsVal(SubSeq(sig, 1, Len(sig) + e)))

\* integer part ip, fraction part fp, exponent digits edig (with its sign)
FloatOfParts(neg, ip, fp, hasexp, eneg, edig) ==
  IF ~(AllDigits(ip) /\ AllDigits(fp) /\ Len(ip) + Len(fp) > 0)
    THEN FloatResult("err", neg, 0)
  ELSE IF hasexp /\ (edig = <<>> \/ ~AllDigits(edig))
    THEN FloatResult("err", neg, 0)
  ELSE FloatOfDigits(neg, DropLeadingZeros(ip), fp,
                     IF ~hasexp THEN 0
                     ELSE IF eneg THEN 0 - DigitsVal(edig) ELSE DigitsVal(edig))

\* mantissa mant and what follows the E (expo)
FloatOfMantissa(neg, mant, hasexp, expo) ==
  LET dpos == IndexOf(mant, {"."})
  IN  FloatOfParts(neg,
                   IF dpos = 0 THEN mant ELSE SubSeq(mant, 1, dpos - 1),
                   IF dpos = 0 THEN <<>> ELSE SubSeq(mant, dpos + 1, Len(mant)),
                   hasexp,
                   expo # <<>> /\ Head(expo) = "-",
                   IF expo # <<>> /\ Head(expo) \in {"+", "-"} THEN Tail(expo) ELSE expo)

\* the text after the sign, upper-cased
FloatOfBody(neg, body) ==
  LET epos == IndexOf(body, {"E"})
  IN  IF body \in {<<"I", "N", "F">>, <<"I", "N", "F", "I", "N", "I", "T", "Y">>}
        THEN FloatResult("inf", neg, 0)
      ELSE IF body = <<"N", "A", "N">> THEN FloatResult("nan", neg, 0)
      ELSE IF epos = 0 THEN FloatOfMantissa(neg, body, FALSE, <<>>)
      ELSE FloatOfMantissa(neg, SubSeq(body, 1, epos - 1), TRUE,
                           SubSeq(body, epos + 1, Len(body)))

FloatOfTrimmed(t) ==
  IF t # <<>> /\ Head(t) \in {"+", "-"} THEN FloatOfBody(Head(t) = "-", Tail(t))
  ELSE FloatOfBody(FALSE, t)

ParseFloat(text) == FloatOfTrimmed(Upper(Strip(text)))

\* int(float(v)): [exc, val]. float(None) raises TypeError, float of text that
\* is no number raises ValueError, int(nan) raises ValueError and int(inf)
\* raises OverflowError.
IntOfFloat(v) ==
  CASE v.k = "none" -> [exc |-> "TypeError", val |-> 0]
    [] v.k = "int" -> [exc |-> "", val |-> v.n]
    [] v.k = "str" ->
       LET f == ParseFloat(v.s)
       IN  CASE f.kind = "err" -> [exc |-> "ValueError", val |-> 0]
             [] f.kind = "nan" -> [exc |-> "ValueError", val |-> 0]
             [] f.kind = "inf" -> [exc |-> "OverflowError", val |-> 0]
             [] f.kind = "num" ->
                [exc |-> "", val |-> IF f.neg THEN 0 - f.trunc ELSE f.trunc]

\* ------------------------------------------------------------ constants
XSD_VENDOR_ID_MAX_LENGTH == 64

XSD_ALLOWED_PRICE_TYPES ==
  { <<"F", "I", "X", "E", "D", "_", "P", "R", "I", "C", "E">>,
    <<"B", "I", "D", "D", "I", "N", "G">>,
    <<"N", "E", "G", "O", "T", "I", "A", "B", "L", "E">>,
    <<"N", "O", "T", "_", "A", "P", "P", "L", "I", "C", "A", "B", "L", "E">>,
    <<"C", "R", "E", "D", "I", "B", "L", "E", "_", "B", "I", "D">>,
    <<"S", "W", "A", "P">>,
    <<"F", "R", "E", "E">>,
    <<"R", "E", "S", "E", "R", "V", "E", "D">>,
    <<"S", "E", "E", "_", "D", "E", "S", "C", "R", "I", "P", "T", "I", "O", "N">>,
    <<"O", "N", "_", "D", "E", "M", "A", "N", "D">>,
    <<"B", "I", "D", "D", "I", "N", "G", "_", "F", "R", "O", "M">> }

ATTRIBUTE_COLUMNS == <<"area_sqm", "property_type", "deal_type">>
IMAGE_COLUMNS ==
  <<"img_2", "img_3", "img_4", "img_5", "img_6", "img_7", "img_8", "img_9", "img_10">>

\* ------------------------------------------------------------ validate_record
required_fields == <<"vendorId", "title", "description", "categoryId", "priceType">>

\* The fields are tested for truthiness in the order given; the first one
\* that is falsy is reported.
RECURSIVE FirstFalsy(_, _)
FirstFalsy(record, fields) ==
  IF fields = <<>> THEN ""
  ELSE IF ~Truthy(Get(record, Head(fields))) THEN Head(fields)
  ELSE FirstFalsy(record, Tail(fields))

validate_record(record) ==
  LET f == FirstFalsy(record, required_fields)
  IN  IF f = "" THEN [ok |-> TRUE, msg |-> <<>>, exc |-> ""]
      ELSE [ok |-> FALSE, msg |-> <<"missing '", f, "'">>, exc |-> ""]

\* ------------------------------------------------------------ validate_xsd_constraints
Passed == [ok |-> TRUE, msg |-> <<>>, exc |-> ""]
Failed(msg) == [ok |-> FALSE, msg |-> msg, exc |-> ""]
Raised(exc) == [ok |-> FALSE, msg |-> <<>>, exc |-> exc]

xsd_vendor_id_inclusive(record) ==
  LET vendor_id == StrOf(GetOr(record, "vendorId", PyStr(<<>>)))
  IN  IF Len(vendor_id) >= XSD_VENDOR_ID_MAX_LENGTH
        THEN Failed(<<"vendorId too long (">> \o IntToStr(Len(vendor_id)) \o <<" > ">>
                    \o IntToStr(XSD_VENDOR_ID_MAX_LENGTH) \o <<")">>)
        ELSE Passed

xsd_vendor_id(record) ==
  LET vendor_id == StrOf(GetOr(record, "vendorId", PyStr(<<>>)))
  IN  IF Len(vendor_id) > XSD_VENDOR_ID_MAX_LENGTH
        THEN Failed(<<"vendorId too long (">> \o IntToStr(Len(vendor_id)) \o <<" > ">>
                    \o IntToStr(XSD_VENDOR_ID_MAX_LENGTH) \o <<")">>)
        ELSE Passed

xsd_price_type(record) ==
  LET price_type == Upper(StrOf(GetOr(record, "priceType", PyStr(<<>>))))
  IN  IF price_type # <<>> /\ price_type \notin XSD_ALLOWED_PRICE_TYPES
        THEN Failed(<<"invalid priceType: '">> \o price_type \o <<"'">>)
        ELSE Passed

\* except (ValueError, TypeError) around int(float(...)); anything else
\* leaves the function.
xsd_category_result(record, c) ==
  IF c.exc \in {"ValueError", "TypeError"}
    THEN Failed(<<"invalid categoryId: '">> \o StrOf(Get(record, "categoryId")) \o <<"'">>)
  ELSE IF c.exc # "" THEN Raised(c.exc)
  ELSE IF c.val <= 0
    THEN Failed(<<"categoryId must be positive, got: ">> \o IntToStr(c.val))
  ELSE Passed

xsd_category_id(record) == xsd_category_result(record, IntOfFloat(Get(record, "categoryId")))

\* the first check of the sequence that does not pass, Passed if all pass
RECURSIVE FirstNotPassed(_)
FirstNotPassed(checks) ==
  IF checks = <<>> THEN Passed
  ELSE IF Head(checks) # Passed THEN Head(checks)
  ELSE FirstNotPassed(Tail(checks))

validate_xsd_constraints_category_first(record) ==
  FirstNotPassed(<<xsd_category_id(record), xsd_vendor_id(record), xsd_price_type(record)>>)

validate_xsd_constraints(record) ==
  FirstNotPassed(<<xsd_vendor_id(record), xsd_price_type(record), xsd_category_id(record)>>)

\* ------------------------------------------------------------ src/main.py: validators
\* main.py defines the same constants (lines 20-36, 70) and its own versions
\* of the functions; the ones that differ are modelled here.
main_validate_record(record) ==
  LET f == FirstFalsy(record, required_fields)
  IN  IF f = "" THEN [ok |-> TRUE, msg |-> <<>>, exc |-> ""]
      ELSE [ok |-> FALSE, msg |-> <<"missing required field '", f, "'">>, exc |-> ""]

main_xsd_vendor_id(record) ==
  LET vendor_id == StrOf(GetOr(record, "vendorId", PyStr(<<>>)))
  IN  IF Len(vendor_id) > XSD_VENDOR_ID_MAX_LENGTH
        THEN Failed(<<"field 'vendorId' ('">> \o SubSeq(vendor_id, 1, 10)
                    \o <<"...') exceeds max length ">>
                    \o IntToStr(XSD_VENDOR_ID_MAX_LENGTH) \o <<" characters">>)
        ELSE Passed

main_xsd_price_type(record) ==
  LET price_type == Upper(StrOf(GetOr(record, "priceType", PyStr(<<>>))))
  IN  IF price_type # <<>> /\ price_type \notin XSD_ALLOWED_PRICE_TYPES
        THEN Failed(<<"value '">> \o price_type
                    \o <<"' in field 'priceType' is not allowed by schema">>)
        ELSE Passed

\* except (ValueError, TypeError, AttributeError) around int(float(...))
main_xsd_category_result(record, c) ==
  IF c.exc \in {"ValueError", "TypeError", "AttributeError"}
    THEN Failed(<<"field 'categoryId' ('">> \o StrOf(Get(record, "categoryId"))
                \o <<"') cannot be converted to a number">>)
  ELSE IF c.exc # "" THEN Raised(c.exc)
  ELSE IF c.val <= 0
    THEN Failed(<<"field 'categoryId' must be a positive number, but got: ">>
                \o IntToStr(c.val))
  ELSE Passed

main_xsd_category_id(record) ==
  main_xsd_category_result(record, IntOfFloat(Get(record, "categoryId")))

main_validate_xsd_constraints(record) ==
  FirstNotPassed(<<main_xsd_vendor_id(record), main_xsd_price_type(record),
                   main_xsd_category_id(record)>>)

\* ------------------------------------------------------------ text helpers
clean_text(text) ==
  IF text.k = "none" \/ Strip(StrOf(text)) = <<>> THEN <<>> ELSE Strip(StrOf(text))

\* str.split(sep) for a non-empty sep: the pieces between the occurrences
RECURSIVE SplitFrom(_, _, _)
SplitFrom(s, sep, cur) ==
  IF Len(s) < Len(sep) THEN <<cur \o s>>
  ELSE IF StartsWith(s, sep)
    THEN <<cur>> \o SplitFrom(SubSeq(s, Len(sep) + 1, Len(s)), sep, <<>>)
  ELSE SplitFrom(Tail(s), sep, cur \o <<Head(s)>>)
Split(s, sep) == SplitFrom(s, sep, <<>>)

\* while '\n\n\n' in s: s = s.replace('\n\n\n', '\n\n')
RECURSIVE CollapseNewlines(_)
CollapseNewlines(s) ==
  IF Contains(s, <<"\n", "\n", "\n">>)
    THEN CollapseNewlines(Replace(s, <<"\n", "\n", "\n">>, <<"\n", "\n">>))
    ELSE s

RECURSIVE WrapParagraphs(_)
WrapParagraphs(parts) ==
  IF parts = <<>> THEN <<>>
  ELSE LET p == Strip(Head(parts))
       IN  (IF p = <<>> THEN <<>>
            ELSE <<"<p>">> \o Replace(p, <<"\n">>, <<"<br>">>) \o <<"</p>">>)
           \o WrapParagraphs(Tail(parts))

\* The markup the function inserts is one chunk per tag; "<" and ">" typed in
\* the input are chunks of their own.
HasAngle(s, open) ==
  \E j \in 1..Len(s) :
    IF open THEN s[j] \in {"<", "<p>", "</p>", "<br>"} ELSE s[j] \in {">", "<p>", "</p>", "<br>"}

format_always_wrapped(s) ==
  IF s = <<>> THEN <<>>
  ELSE WrapParagraphs(Split(Replace(s, <<"\n", BULLET>>, <<"<br>", BULLET>>),
                            <<"\n", "\n">>))

\* s is the text with its line endings normalised and trimmed
format_normalised(s) ==
  IF s = <<>> THEN <<>>
  ELSE IF HasAngle(s, TRUE) /\ HasAngle(s, FALSE)
    THEN Replace(Replace(CollapseNewlines(s), <<"\n", "\n">>, <<"<br>", "<br>">>),
                 <<"\n">>, <<"<br>">>)
  ELSE WrapParagraphs(Split(Replace(s, <<"\n", BULLET>>, <<"<br>", BULLET>>),
                            <<"\n", "\n">>))

format_text_for_marktplaats(text) ==
  IF ~Truthy(text) THEN <<>>
  ELSE format_normalised(
         Strip(Replace(Replace(StrOf(text), <<"\r", "\n">>, <<"\n">>), <<"\r">>, <<"\n">>)))

is_valid_url_any(url) == Truthy(url)

is_valid_url(url) ==
  IF ~Truthy(url) THEN FALSE
  ELSE LET url_str == Strip(StrOf(url))
       IN  \/ StartsWith(url_str, <<"h", "t", "t", "p", ":", "/", "/">>)
           \/ StartsWith(url_str, <<"h", "t", "t", "p", "s", ":", "/", "/">>)

area_fallback_nonnegative(c) ==
  IF c.exc \in {"ValueError", "TypeError"} THEN [exc |-> "", val |-> <<"1">>]
  ELSE IF c.exc # "" THEN [exc |-> c.exc, val |-> <<>>]
  ELSE [exc |-> "", val |-> IF c.val < 0 THEN <<"1">> ELSE IntToStr(c.val)]

\* The value returned is a Python value; exc is the exception that leaves the
\* function (int(float(...)) is guarded for ValueError and TypeError only).
\* c is int(float(value))
area_fallback(c) ==
  IF c.exc \in {"ValueError", "TypeError"} THEN [exc |-> "", val |-> <<"1">>]
  ELSE IF c.exc # "" THEN [exc |-> c.exc, val |-> <<>>]
  ELSE [exc |-> "", val |-> IF c.val <= 0 THEN <<"1">> ELSE IntToStr(c.val)]

get_attribute_value_with_fallback(key, value) ==
  IF key = "area_sqm"
    THEN IF ~Truthy(value) \/ Strip(StrOf(value)) = <<>>
           THEN [exc |-> "", val |-> <<"1">>]
           ELSE area_fallback(IntOfFloat(value))
    ELSE [exc |-> "", val |-> IF Truthy(value) THEN StrOf(value) ELSE <<>>]

types_requiring_price ==
  { <<"F", "I", "X", "E", "D", "_", "P", "R", "I", "C", "E">>,
    <<"B", "I", "D", "D", "I", "N", "G", "_", "F", "R", "O", "M">> }

price_fallback_nonnegative(c) ==
  IF c.exc \in {"ValueError", "TypeError"} THEN [exc |-> "", val |-> 1]
  ELSE IF c.exc # "" THEN [exc |-> c.exc, val |-> 0]
  ELSE [exc |-> "", val |-> IF c.val < 0 THEN 1 ELSE c.val]

\* c is int(float(price_value))
price_fallback(c) ==
  IF c.exc \in {"ValueError", "TypeError"} THEN [exc |-> "", val |-> 1]
  ELSE IF c.exc # "" THEN [exc |-> c.exc, val |-> 0]
  ELSE [exc |-> "", val |-> IF c.val <= 0 THEN 1 ELSE c.val]

get_price_with_fallback_any_type(price_value, price_type) ==
  IF ~Truthy(price_value) THEN [exc |-> "", val |-> 1]
  ELSE price_fallback(IntOfFloat(price_value))

get_price_with_fallback(price_value, price_type) ==
  IF price_type \in types_requiring_price
    THEN IF ~Truthy(price_value) THEN [exc |-> "", val |-> 1]
         ELSE price_fallback(IntOfFloat(price_value))
    ELSE [exc |-> "", val |-> 0]

\* ------------------------------------------------------------ replace_text_tags
EmptyDict == [key \in {} |-> PyNone]
Put(d, key, v) == [x \in DOMAIN d \cup {key} |-> IF x = key THEN v ELSE d[x]]

\* the keys of tag_mapping, in the order the dict is iterated
TagOrder ==
  <<"{{Centre_description}}", "{{center_name}}", "{{price}}", "{{currency}}",
    "{{area_Min}}", "{{area_Max}}">>

tag_mapping_raw_centre(tag, memory, record) ==
  CASE tag = "{{Centre_description}}" -> GetOr(record, "Centre_description", PyStr(<<>>))
    [] tag = "{{center_name}}" -> PyStr(clean_text(GetOr(record, "center_name", PyStr(<<>>))))
    [] tag = "{{price}}" -> PyStr(clean_text(GetOr(record, "price (mirror)", PyStr(<<>>))))
    [] tag = "{{currency}}" -> PyStr(<<"E", "U", "R">>)
    [] tag = "{{area_Min}}" -> PyStr(clean_text(GetOr(record, "area_sqm", PyStr(<<>>))))
    [] tag = "{{area_Max}}" -> PyStr(clean_text(GetOr(record, "area_max", PyStr(<<>>))))

\* tag_mapping[tag](): the value a tag stands for
tag_mapping(tag, memory, record) ==
  CASE tag = "{{Centre_description}}" -> GetOr(memory, "Centre_description", PyStr(<<>>))
    [] tag = "{{center_name}}" -> PyStr(clean_text(GetOr(record, "center_name", PyStr(<<>>))))
    [] tag = "{{price}}" -> PyStr(clean_text(GetOr(record, "price (mirror)", PyStr(<<>>))))
    [] tag = "{{currency}}" -> PyStr(<<"E", "U", "R">>)
    [] tag = "{{area_Min}}" -> PyStr(clean_text(GetOr(record, "area_sqm", PyStr(<<>>))))
    [] tag = "{{area_Max}}" -> PyStr(clean_text(GetOr(record, "area_max", PyStr(<<>>))))

\* The loop over tag_mapping: each tag found in the text so far is replaced
\* by its value; str.replace raises TypeError when the value is not a string.
RECURSIVE ApplyTags(_, _, _, _)
ApplyTag(result, tags, memory, record, value) ==
  IF value.k # "str" THEN [exc |-> "TypeError", val |-> PyStr(result)]
  ELSE ApplyTags(Replace(result, <<Head(tags)>>, value.s), Tail(tags), memory, record)

ApplyTags(result, tags, memory, record) ==
  IF tags = <<>> THEN [exc |-> "", val |-> PyStr(result)]
  ELSE IF Contains(result, <<Head(tags)>>)
    THEN ApplyTag(result, tags, memory, record, tag_mapping(Head(tags), memory, record))
  ELSE ApplyTags(result, Tail(tags), memory, record)

\* [exc, val]; a falsy text is returned as it is (not converted to a string).
replace_tags_in_text(text, memory, record) ==
  IF ~Truthy(text) THEN [exc |-> "", val |-> text]
  ELSE ApplyTags(StrOf(text), TagOrder, memory, record)

FirstExc(excs) ==
  IF \A j \in 1..Len(excs) : excs[j] = "" THEN ""
  ELSE excs[CHOOSE j \in 1..Len(excs) :
              excs[j] # "" /\ \A h \in 1..(j - 1) : excs[h] = ""]

\* memory after the fields processed so far
Memory1(title) == Put(EmptyDict, "title", title.val)
Memory2(title, centre_desc) == Put(Memory1(title), "Centre_description", centre_desc.val)
Memory3(title, centre_desc, preheader) ==
  Put(Memory2(title, centre_desc), "preheader", preheader.val)

\* updated_record = record.copy() with the four fields set
updated_record(record, title, centre_desc, preheader, description) ==
  [exc |-> FirstExc(<<title.exc, centre_desc.exc, preheader.exc, description.exc>>),
   val |-> Put(Put(Put(Put(record, "title", title.val),
                       "Centre_description", centre_desc.val),
                   "preheader", preheader.val),
               "description", description.val)]

replace_description(record, title, centre_desc, preheader) ==
  updated_record(record, title, centre_desc, preheader,
    replace_tags_in_text(GetOr(record, "description", PyStr(<<>>)),
                         Memory3(title, centre_desc, preheader), record))

replace_preheader(record, title, centre_desc) ==
  replace_description(record, title, centre_desc,
    replace_tags_in_text(GetOr(record, "preheader", PyStr(<<>>)),
                         Memory2(title, centre_desc), record))

replace_centre_desc(record, title) ==
  replace_preheader(record, title,
    replace_tags_in_text(GetOr(record, "Centre_description", PyStr(<<>>)),
                         Memory1(title), record))

\* [exc, val]: the fields are processed in the order title, Centre_description,
\* preheader, description; val is the updated copy of the record
replace_text_tags(record) ==
  replace_centre_desc(record,
    replace_tags_in_text(GetOr(record, "title", PyStr(<<>>)), EmptyDict, record))

\* ------------------------------------------------------------ listing construction
\* An element of the document: its tag, its text, its url attribute (image
\* elements) and its child elements.
Elem(tag, text, kids) == [tag |-> tag, text |-> text, url |-> <<>>, kids |-> kids]
Image(url) == [tag |-> "image", text |-> <<>>, url |-> url, kids |-> <<>>]

\* lxml accepts only XML-compatible text.
XmlCompatible(text) == \A j \in 1..Len(text) : text[j] # NUL

\* etree.SubElement(ad, tag).text = text: the right-hand side is evaluated
\* first, then the element is created, then its text is set; a refused text
\* leaves the element in place with no text.
SubElementText(tag, text) ==
  IF XmlCompatible(text) THEN [exc |-> "", kids |-> <<Elem(tag, text, <<>>)>>]
  ELSE [exc |-> "ValueError", kids |-> <<Elem(tag, <<>>, <<>>)>>]

\* etree.SubElement(ad, tag).text = etree.CDATA(text): CDATA(text) is the
\* right-hand side and refuses the text before the element is created.
SubElementCData(tag, text) ==
  IF XmlCompatible(text) THEN [exc |-> "", kids |-> <<Elem(tag, text, <<>>)>>]
  ELSE [exc |-> "ValueError", kids |-> <<>>]

NoKids(exc) == [exc |-> exc, kids |-> <<>>]

\* preheader first, then a blank line, then the description
description_only(record) == Get(record, "description")

combined_description_source(record) ==
  LET description == Get(record, "description")
      preheader_text == Get(record, "preheader")
  IN  IF Truthy(preheader_text) /\ Strip(StrOf(preheader_text)) # <<>>
        THEN LET base_desc == IF Truthy(description) THEN StrOf(description) ELSE <<>>
             IN  IF Strip(base_desc) # <<>>
                   THEN PyStr(Strip(StrOf(preheader_text)) \o <<"\n", "\n">> \o Strip(base_desc))
                   ELSE PyStr(Strip(StrOf(preheader_text)))
        ELSE description

\* c is the integer, or the exception raised when it was computed
SubElementInt(tag, c) ==
  IF c.exc # "" THEN NoKids(c.exc) ELSE SubElementText(tag, IntToStr(c.val))

build_category_id(record) == SubElementInt("categoryId", IntOfFloat(Get(record, "categoryId")))

listing_price_type(record) == Upper(clean_text(Get(record, "priceType")))

build_price(record) ==
  SubElementInt("price",
                get_price_with_fallback(Get(record, "price"), listing_price_type(record)))

build_url(record) ==
  IF Truthy(Get(record, "url")) /\ is_valid_url(Get(record, "url"))
    THEN SubElementText("url", clean_text(Get(record, "url")))
    ELSE NoKids("")

RECURSIVE ImagesOf(_, _)
ImagesOf(record, columns) ==
  IF columns = <<>> THEN <<>>
  ELSE LET img_url == Get(record, Head(columns))
       IN  (IF Truthy(img_url) /\ is_valid_url(img_url) THEN <<clean_text(img_url)>> ELSE <<>>)
           \o ImagesOf(record, Tail(columns))

all_images_link_last(record) == ImagesOf(record, IMAGE_COLUMNS \o <<"image_link">>)

all_images(record) == ImagesOf(record, <<"image_link">> \o IMAGE_COLUMNS)

media_of(imgs) ==
  IF imgs = <<>> THEN NoKids("")
  ELSE [exc |-> "",
        kids |-> <<Elem("media", <<>>, [j \in 1..Len(imgs) |-> Image(imgs[j])])>>]

build_media(record) == media_of(all_images(record))

\* found_attrs: [exc, val], val the (key, value) pairs found before exc
RECURSIVE found_attrs(_, _)
found_attr(record, columns, final) ==
  IF final.exc # "" THEN [exc |-> final.exc, val |-> <<>>]
  ELSE [exc |-> found_attrs(record, Tail(columns)).exc,
        val |-> (IF final.val # <<>> THEN <<<<Head(columns), final.val>>>> ELSE <<>>)
                \o found_attrs(record, Tail(columns)).val]

RECURSIVE found_attrs_truthy(_, _)
found_attrs_truthy(record, columns) ==
  IF columns = <<>> THEN [exc |-> "", val |-> <<>>]
  ELSE IF ~Truthy(Get(record, Head(columns))) THEN found_attrs_truthy(record, Tail(columns))
  ELSE found_attr(record, columns,
                  get_attribute_value_with_fallback(
                    Head(columns), PyStr(clean_text(Get(record, Head(columns))))))

found_attrs(record, columns) ==
  IF columns = <<>> THEN [exc |-> "", val |-> <<>>]
  ELSE IF Get(record, Head(columns)).k = "none" THEN found_attrs(record, Tail(columns))
  ELSE found_attr(record, columns,
                  get_attribute_value_with_fallback(
                    Head(columns), PyStr(clean_text(Get(record, Head(columns))))))

attributes_of(found) ==
  IF found.exc # "" THEN NoKids(found.exc)
  ELSE IF found.val = <<>> THEN NoKids("")
  ELSE [exc |-> "",
        kids |-> <<Elem("attributes", <<>>,
                   [j \in 1..Len(found.val) |->
                     Elem("attribute", <<>>,
                          <<Elem("attributeName", <<found.val[j][1]>>, <<>>),
                            Elem("attributeValue", found.val[j][2], <<>>)>>)])>>]

build_attributes(record) == attributes_of(found_attrs(record, ATTRIBUTE_COLUMNS))

\* The statements run in order; the first one that raises ends the run and
\* the children created so far stay in the element.
RECURSIVE RunSteps(_)
RunSteps(steps) ==
  IF steps = <<>> THEN NoKids("")
  ELSE IF Head(steps).exc # "" THEN Head(steps)
  ELSE [exc |-> RunSteps(Tail(steps)).exc,
        kids |-> Head(steps).kids \o RunSteps(Tail(steps)).kids]

\* lines 305-361: [exc, kids], the children of the ad element when the block
\* ends, normally or by exc
build_ad(record) ==
  RunSteps(<<SubElementText("vendorId", clean_text(Get(record, "vendorId"))),
             SubElementText("title", clean_text(Get(record, "title"))),
             SubElementCData("description",
                             format_text_for_marktplaats(combined_description_source(record))),
             build_category_id(record),
             SubElementText("priceType", listing_price_type(record)),
             build_price(record),
             build_url(record),
             build_media(record),
             build_attributes(record)>>)

\* ------------------------------------------------------------ src/main.py: listing construction
main_clean_text(text) == IF text.k = "none" THEN <<>> ELSE Strip(StrOf(text))

\* c is int(float(value)); a number above zero leaves the value as it is
main_area_fallback(c, value) ==
  IF c.exc \in {"ValueError", "TypeError"} THEN [exc |-> "", val |-> <<"1">>]
  ELSE IF c.exc # "" THEN [exc |-> c.exc, val |-> <<>>]
  ELSE [exc |-> "", val |-> IF c.val <= 0 THEN <<"1">> ELSE StrOf(value)]

main_get_attribute_value_with_fallback(key, value) ==
  IF key = "area_sqm" THEN main_area_fallback(IntOfFloat(value), value)
  ELSE [exc |-> "", val |-> StrOf(value)]

\* the try block is the one of src/app.py (price_fallback)
main_get_price_with_fallback(price_value, price_type) ==
  IF price_type \in types_requiring_price
    THEN IF price_value.k = "none" THEN [exc |-> "", val |-> 1]
         ELSE price_fallback(IntOfFloat(price_value))
    ELSE [exc |-> "", val |-> 0]

main_build_price(record) ==
  SubElementInt("price",
                main_get_price_with_fallback(Get(record, "price"),
                                             Upper(main_clean_text(Get(record, "priceType")))))

RECURSIVE main_found_attrs(_, _)
main_found_attr(record, columns, final) ==
  IF final.exc # "" THEN [exc |-> final.exc, val |-> <<>>]
  ELSE [exc |-> main_found_attrs(record, Tail(columns)).exc,
        val |-> (IF final.val # <<>> THEN <<<<Head(columns), final.val>>>> ELSE <<>>)
                \o main_found_attrs(record, Tail(columns)).val]

main_found_attrs(record, columns) ==
  IF columns = <<>> THEN [exc |-> "", val |-> <<>>]
  ELSE IF Get(record, Head(columns)).k = "none" THEN main_found_attrs(record, Tail(columns))
  ELSE main_found_attr(record, columns,
                       main_get_attribute_value_with_fallback(
                         Head(columns), PyStr(main_clean_text(Get(record, Head(columns))))))

\* lines 216-263 of src/main.py: [exc, kids]. The url and the images are
\* built by the statements of src/app.py; main.py's clean_text and
\* is_valid_url give the same values there (is_valid_url is only called on
\* truthy values).
main_build_ad(record) ==
  RunSteps(<<SubElementText("vendorId", main_clean_text(Get(record, "vendorId"))),
             SubElementText("title", main_clean_text(Get(record, "title"))),
             SubElementCData("description", main_clean_text(Get(record, "description"))),
             build_category_id(record),
             SubElementText("priceType", Upper(main_clean_text(Get(record, "priceType")))),
             main_build_price(record),
             build_url(record),
             build_media(record),
             attributes_of(main_found_attrs(record, ATTRIBUTE_COLUMNS))>>)

\* ------------------------------------------------------------ input records
Without(d, key) == [x \in DOMAIN d \ {key} |-> d[x]]

T_TRUE == <<"T", "R", "U", "E">>
T_YES == <<"Y", "E", "S">>
T_free == <<"f", "r", "e", "e">>
T_FIXED_PRICE == <<"F", "I", "X", "E", "D", "_", "P", "R", "I", "C", "E">>
T_bogus == <<"b", "o", "g", "u", "s">>
T_inf == <<"i", "n", "f">>
T_1e999 == <<"1", "e", "9", "9", "9">>
T_abc == <<"a", "b", "c">>
T_V1 == <<"V", "1">>
T_Flat == <<"F", "l", "a", "t">>
T_Nice == <<"N", "i", "c", "e">>
T_http == <<"h", "t", "t", "p", ":", "/", "/", "x">>
T_ftp == <<"f", "t", "p", ":", "/", "/", "x">>

\* scenario 1 of the specification: an active, valid record
Base ==
  [Available |-> PyStr(T_TRUE), vendorId |-> PyStr(T_V1), title |-> PyStr(T_Flat),
   description |-> PyStr(T_Nice), categoryId |-> PyStr(<<"5">>), priceType |-> PyStr(T_free)]

With(key, v) == (key :> v) @@ Base
With2(k1, v1, k2, v2) == (k1 :> v1) @@ (k2 :> v2) @@ Base

\* One record for every way through the loop body: inactive, each validation
\* failure, an exception in each stage, and listings with and without the
\* optional parts.
RecordsMain ==
  { Base,
    With("Available", PyStr(<<"N", "O">>)),
    Without(Base, "Available"),
    With2("Available", PyStr(<<"N", "O">>), "categoryId", PyStr(T_inf)),
    With("title", PyStr(<<>>)),
    Without(Base, "vendorId"),
    With("priceType", PyStr(T_bogus)),
    With("categoryId", PyStr(<<"0">>)),
    With("categoryId", PyStr(T_abc)),
    With("categoryId", PyStr(T_inf)),
    With2("Centre_description", PyInt(0), "description", PyStr(<<"{{Centre_description}}">>)),
    With2("priceType", PyStr(T_FIXED_PRICE), "price", PyStr(T_inf)),
    With2("priceType", PyStr(T_FIXED_PRICE), "price", PyStr(<<"2", "5", "0">>)),
    With("area_sqm", PyStr(T_1e999)),
    With("area_sqm", PyStr(<<"-", "5">>)),
    With("title", PyStr(<<"F", NUL>>)),
    With2("url", PyStr(T_http), "image_link", PyStr(T_ftp)),
    With2("image_link", PyStr(T_http), "preheader", PyStr(<<"{{currency}}">>)) }

\* The values of the Available column, on records of every kind: valid, with a
\* missing field, and raising in substitution, in validation and in construction.
AvailableValues ==
  { PyStr(<<>>), PyStr(T_TRUE), PyStr(<<"t", "r", "u", "e">>), PyStr(<<" ", "y", "e", "s", " ">>),
    PyStr(T_YES), PyStr(<<"1">>), PyInt(1), PyInt(0), PyStr(<<"N", "O">>), PyStr(<<"0">>),
    PyStr(<<"f", "a", "l", "s", "e">>), PyStr(<<"1", ".", "0">>), PyStr(<<" ">>),
    PyStr(<<"T", " ", "R", "U", "E">>) }

GateBodies ==
  { Base,
    With("title", PyStr(<<>>)),
    With2("Centre_description", PyInt(0), "description", PyStr(<<"{{Centre_description}}">>)),
    With("categoryId", PyStr(T_inf)),
    With2("priceType", PyStr(T_FIXED_PRICE), "price", PyStr(T_inf)) }

RecordsGate ==
  {("Available" :> a) @@ b : a \in AvailableValues, b \in GateBodies}
  \cup {Without(b, "Available") : b \in GateBodies}

\* Every combination of present, absent, empty, blank, zero and tag-only
\* values of the five required fields.
T_Mall == <<"M", "a", "l", "l">>

FieldsVendorId == {PyStr(T_V1), PyNone, PyStr(<<" ">>)}
FieldsTitle ==
  { PyStr(T_Flat), PyStr(<<>>), PyStr(<<" ">>), PyInt(0),
    PyStr(<<"{{center_name}}">>), PyStr(<<"{{area_Max}}">>) }
\* the description and the Centre_description it may refer to
FieldsDescription ==
  { <<PyStr(T_Nice), PyNone>>,
    <<PyStr(<<>>), PyNone>>,
    <<PyStr(<<"{{Centre_description}}">>), PyNone>>,
    <<PyStr(<<"{{Centre_description}}">>), PyStr(<<"C", "{{currency}}">>)>>,
    <<PyStr(<<"{{Centre_description}}">>), PyStr(<<" ">>)>>,
    <<PyStr(<<"{{Centre_description}}">>), PyInt(0)>> }
FieldsCategoryId == {PyStr(<<"5">>), PyNone, PyInt(0), PyStr(T_abc)}
FieldsPriceType == {PyStr(T_free), PyStr(<<>>), PyStr(T_bogus)}

\* the dict with the given values; a column whose value is None is absent
DictOf(keys, values) ==
  [key \in {keys[j] : j \in {h \in 1..Len(keys) : values[h] # PyNone}} |->
    values[CHOOSE j \in 1..Len(keys) : keys[j] = key]]

RecordsFields ==
  { DictOf(<<"Available", "center_name", "vendorId", "title", "description",
             "Centre_description", "categoryId", "priceType">>,
           <<PyStr(T_TRUE), PyStr(T_Mall), v, t, d[1], d[2], c, p>>) :
      v \in FieldsVendorId, t \in FieldsTitle, d \in FieldsDescription,
      c \in FieldsCategoryId, p \in FieldsPriceType }

\* Every combination of a vendorId at, below and above the length limit, an
\* allowed or unknown priceType and a categoryId of each kind.
XsdVendorId ==
  { PyStr(T_V1),
    PyStr([j \in 1..XSD_VENDOR_ID_MAX_LENGTH |-> "v"]),
    PyStr([j \in 1..(XSD_VENDOR_ID_MAX_LENGTH + 1) |-> "v"]) }
XsdPriceType ==
  { PyStr(T_free), PyStr(T_FIXED_PRICE), PyStr(T_bogus), PyStr(<<" ", "f", "r", "e", "e">>),
    PyStr(<<"F", "r", "e", "e">>) }
XsdCategoryId ==
  { PyStr(<<"5">>), PyStr(<<"0">>), PyStr(<<"-", "3">>), PyStr(T_abc), PyStr(T_inf),
    PyStr(T_1e999), PyStr(<<"n", "a", "n">>), PyStr(<<"1", "2", ".", "7">>), PyInt(7), PyInt(0 - 1),
    PyStr(<<" ", "5", " ">>) }

RecordsXsd ==
  { DictOf(<<"Available", "title", "description", "vendorId", "priceType", "categoryId">>,
           <<PyStr(T_TRUE), PyStr(T_Flat), PyStr(T_Nice), v, p, c>>) :
      v \in XsdVendorId, p \in XsdPriceType, c \in XsdCategoryId }

\* Valid records that differ in what goes into the optional and computed
\* parts of a listing.
ListingOf(keys, values) ==
  DictOf(<<"Available", "vendorId", "title", "description", "categoryId">> \o keys,
         <<PyStr(T_TRUE), PyStr(T_V1), PyStr(T_Flat), PyStr(T_Nice), PyStr(<<"5">>)>> \o values)

\* every kind of price under price types that require a price and that do not
RecordsPrice ==
  { ListingOf(<<"priceType", "price">>, <<p, v>>) :
      p \in { PyStr(T_free), PyStr(T_FIXED_PRICE),
              PyStr(<<"b", "i", "d", "d", "i", "n", "g", "_", "f", "r", "o", "m">>),
              PyStr(<<"N", "E", "G", "O", "T", "I", "A", "B", "L", "E">>) },
      v \in { PyNone, PyStr(<<>>), PyStr(<<"0">>), PyStr(<<"0", ".", "9">>), PyStr(<<"-", "5">>),
              PyStr(<<"2", "5", "0">>), PyStr(<<"1", "2", ".", "7">>), PyStr(T_abc),
              PyStr(<<"n", "a", "n">>), PyStr(T_inf), PyStr(T_1e999), PyStr(<<" ", "7", " ">>),
              PyInt(250), PyInt(0) } }

\* every kind of value in the attribute columns
RecordsAttrs ==
  { ListingOf(<<"priceType", "area_sqm", "property_type", "deal_type">>,
              <<PyStr(T_free), a, t, d>>) :
      a \in { PyNone, PyStr(<<>>), PyStr(<<" ">>), PyStr(<<"0">>), PyStr(<<"-", "5">>),
              PyStr(<<"1", "2", ".", "7">>), PyStr(<<"4", "0">>), PyStr(T_abc),
              PyStr(<<"n", "a", "n">>), PyStr(<<"1", "e", "2">>), PyStr(T_inf),
              PyInt(40), PyInt(0) },
      t \in {PyNone, PyStr(<<>>), PyStr(<<" ", "o", "f", "f", "i", "c", "e", " ">>), PyStr(<<"0">>)},
      d \in {PyNone, PyStr(<<"r", "e", "n", "t">>)} }

\* a valid address that names the column it stands in
UrlOf(column) == PyStr(<<"h", "t", "t", "p", "s", ":", "/", "/", column>>)

\* valid, invalid, blank and absent values in the url and image columns, and
\* one record with all ten images
RecordsMedia ==
  { ListingOf(<<"priceType", "image_link", "img_2", "img_3", "img_10", "url">>,
              <<PyStr(T_free), l, i2, i3, i10, u>>) :
      l \in {PyNone, UrlOf("image_link"), PyStr(T_ftp), PyStr(<<" ">> \o T_http \o <<" ">>)},
      i2 \in {PyNone, UrlOf("img_2"), PyStr(T_ftp)},
      i3 \in {PyNone, UrlOf("img_3")},
      i10 \in {PyNone, PyStr(<<"H", "T", "T", "P", ":", "/", "/", "x">>)},
      u \in {PyNone, UrlOf("url"), PyStr(T_ftp), PyStr(<<" ">>)} }
  \cup { ListingOf(<<"priceType", "image_link">> \o IMAGE_COLUMNS,
                   <<PyStr(T_free), UrlOf("image_link")>>
                     \o [j \in 1..Len(IMAGE_COLUMNS) |-> UrlOf(IMAGE_COLUMNS[j])]) }

RecordsListing == RecordsPrice \cup RecordsAttrs \cup RecordsMedia

\* Records whose text fields refer to each other through tags: a tag in the
\* title, in Centre_description (also to itself), in preheader and in
\* description, and tag sources that spell a tag themselves.
TagsTitle ==
  { PyStr(T_Flat), PyStr(<<"T", "{{Centre_description}}">>), PyStr(<<"{{center_name}}">>),
    PyStr(<<"{{price}}">>) }
TagsCentreDescription ==
  { PyNone, PyStr(<<>>), PyStr(<<"B", "i", "g">>), PyStr(<<"C", "{{currency}}">>),
    PyStr(<<"{{Centre_description}}", "x">>), PyStr(<<"{{center_name}}", "!">>) }
TagsPreheader == {PyNone, PyStr(<<"P", "{{Centre_description}}">>)}
TagsDescription ==
  { PyStr(T_Nice), PyStr(<<"D", "{{Centre_description}}">>),
    PyStr(<<"{{Centre_description}}", "{{currency}}">>), PyStr(<<"{{center_name}}">>),
    PyStr(<<"{{zzz}}", "{{price}}">>) }
\* center_name and the mirrored price
TagsSources ==
  { <<PyStr(T_Mall), PyStr(<<"9">>)>>,
    <<PyStr(<<"M", "{{currency}}">>), PyStr(<<"9">>)>>,
    <<PyStr(<<"{{price}}">>), PyStr(<<"9">>)>>,
    <<PyStr(T_Mall), PyStr(<<"{{currency}}">>)>>,
    <<PyStr(T_Mall), PyStr(<<"{{center_name}}">>)>> }

RecordsTags ==
  { DictOf(<<"Available", "vendorId", "categoryId", "priceType", "title",
             "Centre_description", "preheader", "description", "center_name",
             "price (mirror)">>,
           <<PyStr(T_TRUE), PyStr(T_V1), PyStr(<<"5">>), PyStr(T_free), t, c, p, d, s[1],
             s[2]>>) :
      t \in TagsTitle, c \in TagsCentreDescription, p \in TagsPreheader,
      d \in TagsDescription, s \in TagsSources }

\* Valid records with every kind of preheader next to every kind of
\* description.
CombinedPreheader ==
  { PyNone, PyStr(<<>>), PyStr(<<" ">>), PyStr(<<" ", "P", "r", "e", " ">>),
    PyStr(<<"{{currency}}">>), PyStr(<<"{{area_Max}}">>), PyInt(7), PyInt(0) }
CombinedDescription ==
  { PyStr(T_Nice), PyStr(<<" ", "N", "i", "c", "e", " ">>), PyStr(<<"{{center_name}}">>),
    PyStr(<<"a", "\n", "\n", "b">>), PyStr(<<" ">>), PyStr(<<"{{area_Max}}">>), PyInt(5) }
RecordsCombined ==
  { DictOf(<<"Available", "vendorId", "title", "categoryId", "priceType", "center_name",
             "preheader", "description">>,
           <<PyStr(T_TRUE), PyStr(T_V1), PyStr(T_Flat), PyStr(<<"5">>), PyStr(T_free),
             PyStr(T_Mall), p, d>>) :
      p \in CombinedPreheader, d \in CombinedDescription }

\* Valid records whose description is any text of up to MaxTextLen characters
\* over line ends, blanks, angle brackets, bullets and a letter.
MaxTextLen == 4
TextAlphabet == {"a", "\n", "\r", " ", "<", ">", BULLET}
Texts == UNION {[1..len -> TextAlphabet] : len \in 1..MaxTextLen}
RecordsFormat ==
  { DictOf(<<"Available", "vendorId", "title", "categoryId", "priceType", "description">>,
           <<PyStr(T_TRUE), PyStr(T_V1), PyStr(T_Flat), PyStr(<<"5">>), PyStr(T_free),
             PyStr(t)>>) : t \in Texts }

RecordsText == RecordsCombined \cup RecordsFormat

\* Records for a call of validate_xsd_constraints on its own: every
\* combination of the constrained fields, the priceType also empty and absent.
CallPriceType == XsdPriceType \cup {PyNone, PyStr(<<>>), PyStr(<<" ">>)}
RecordsCall ==
  { DictOf(<<"vendorId", "priceType", "categoryId">>, <<v, p, c>>) :
      v \in XsdVendorId, p \in CallPriceType, c \in XsdCategoryId }

\* Records for a request to the handler: a listing, an inactive record, a
\* missing field, a categoryId that overflows and a title lxml refuses.
RecordsHandler ==
  { Base,
    With("Available", PyStr(<<"N", "O">>)),
    With("title", PyStr(<<>>)),
    With("categoryId", PyStr(T_inf)),
    With("title", PyStr(<<"F", NUL>>)) }

\* ------------------------------------------------------------ generate_xml_feed
VARIABLES
  n,                \* len(records)
  i,                \* the records consumed so far; the loop variable at the next fetch
  pc,               \* where the function is: loop, gate, subst, validate, xsd, build, returned, aborted
  raw,              \* records[i], the element of the input list
  record,           \* the local variable record
  vendor_id,        \* the local variable vendor_id (line 276)
  root,             \* the ad elements of the document, in order
  processed_count,
  skipped_count,
  error_details,
  stages,           \* the stages run so far on the current record
  start,            \* the counters when the current record was fetched
  trace,            \* per finished record: its outcome and what it added
  result,           \* what a validator called on its own returned
  handler,          \* where the /generate-feed handler is ("none": no request)
  latest_xml,       \* the content of the file latest.xml
  cloudinary_result,
  cloudinary_error,
  response          \* the answer of the handler

\* the state of a request to /generate-feed
request == <<handler, latest_xml, cloudinary_result, cloudinary_error, response>>

vars ==
  <<n, i, pc, raw, record, vendor_id, root, processed_count, skipped_count,
    error_details, stages, start, trace, result, request>>

\* generate_xml_feed is called on its own, not from the handler
NoRequest ==
  /\ result = PyNone
  /\ handler = "none"
  /\ latest_xml = "absent"
  /\ cloudinary_result = PyNone
  /\ cloudinary_error = PyNone
  /\ response = PyNone

Init ==
  /\ n \in 0..MaxRecords
  /\ i = 0
  /\ pc = "loop"
  /\ raw = EmptyDict
  /\ record = EmptyDict
  /\ vendor_id = PyNone
  /\ root = <<>>
  /\ processed_count = 0
  /\ skipped_count = 0
  /\ error_details = <<>>
  /\ stages = <<>>
  /\ start = [ads |-> 0, errs |-> 0, processed |-> 0, skipped |-> 0]
  /\ trace = <<>>
  /\ NoRequest

\* the same, for a list drawn from one of the large families of records
InitFamily ==
  /\ n \in 0..MaxFamilyRecords
  /\ i = 0
  /\ pc = "loop"
  /\ raw = EmptyDict
  /\ record = EmptyDict
  /\ vendor_id = PyNone
  /\ root = <<>>
  /\ processed_count = 0
  /\ skipped_count = 0
  /\ error_details = <<>>
  /\ stages = <<>>
  /\ start = [ads |-> 0, errs |-> 0, processed |-> 0, skipped |-> 0]
  /\ trace = <<>>
  /\ NoRequest

row_num_from_one == i + 1

row_num == i + 2

\* for i, record in enumerate(records): the next record of the list, and
\* vendor_id = record.get('vendorId') or f'ROW-{row_num}'
Fetch(Records) ==
  /\ pc = "loop"
  /\ i < n
  /\ \E r \in Records :
       /\ raw' = r
       /\ record' = r
       /\ vendor_id' = IF Truthy(Get(r, "vendorId")) THEN Get(r, "vendorId")
                       ELSE PyStr(<<"ROW-">> \o IntToStr(row_num))
  /\ pc' = "gate"
  /\ stages' = <<>>
  /\ start' = [ads |-> Len(root), errs |-> Len(error_details),
               processed |-> processed_count, skipped |-> skipped_count]
  /\ UNCHANGED <<n, i, root, processed_count, skipped_count, error_details, trace, result, request>>

ActiveTokens == {T_TRUE, T_YES, <<"1">>}

IsActiveByDefault(r) ==
  Upper(Strip(StrOf(GetOr(r, "Available", PyStr(T_TRUE))))) \in ActiveTokens

\* available = str(record.get('Available', '')).strip().upper();
\* available in ['TRUE', 'YES', '1']
IsActive(r) ==
  Upper(Strip(StrOf(GetOr(r, "Available", PyStr(<<>>))))) \in ActiveTokens

\* The record is left with the given outcome and the loop goes on.
EndIteration(outcome, stage, root2, errors2, processed2, skipped2) ==
  /\ root' = root2
  /\ error_details' = errors2
  /\ processed_count' = processed2
  /\ skipped_count' = skipped2
  /\ trace' = Append(trace, [outcome |-> outcome,
                             active |-> IsActive(raw),
                             stages |-> Append(stages, stage),
                             ads |-> Len(root2) - start.ads,
                             errs |-> Len(errors2) - start.errs,
                             processed |-> processed2 - start.processed,
                             skipped |-> skipped2 - start.skipped])
  /\ stages' = Append(stages, stage)
  /\ i' = i + 1
  /\ pc' = "loop"
  /\ UNCHANGED <<n, raw, record, vendor_id, start, result, request>>

\* The stage passed: the next stage runs on the record.
Continue(stage, next, record2) ==
  /\ record' = record2
  /\ stages' = Append(stages, stage)
  /\ pc' = next
  /\ UNCHANGED <<n, i, raw, vendor_id, root, processed_count, skipped_count,
                 error_details, start, trace, result, request>>

ReasonPrefix == <<"Row ">> \o IntToStr(row_num) \o <<" (">> \o StrOf(vendor_id)

SkipWithoutCount(outcome, stage, reason, root2) ==
  EndIteration(outcome, stage, root2,
               Append(error_details, [vendorId |-> vendor_id, reason |-> reason]),
               processed_count, skipped_count)

\* error_details.append(...); skipped_count += 1; continue
Skip(outcome, stage, reason, root2) ==
  EndIteration(outcome, stage, root2,
               Append(error_details, [vendorId |-> vendor_id, reason |-> reason]),
               processed_count, skipped_count + 1)

\* str(e) of the exceptions that arise; the letters "inf" of "infinity" are
\* kept apart, they are the one place where a message spells an input text
ExcText(exc) ==
  CASE exc = "OverflowError" ->
         <<"cannot convert float ", "i", "n", "f", "inity to integer">>
    [] exc = "TypeError" -> <<"replace() argument 2 must be str, not int">>
    [] exc = "ValueError" -> <<"All strings must be XML compatible">>

\* the classes derived from Exception
ExceptionClasses == {"OverflowError", "TypeError", "ValueError"}

CatchesValueAndTypeError(exc) == exc \in {"ValueError", "TypeError"}

\* except Exception
Catches(exc) == exc \in ExceptionClasses

\* exc was raised in the try block: the except clause, or the exception
\* leaves generate_xml_feed.
Except(exc, stage, root2) ==
  IF Catches(exc)
    THEN Skip("Errored", stage,
              ReasonPrefix \o <<"): ", exc, " - ">> \o ExcText(exc), root2)
    ELSE /\ pc' = "aborted"
         /\ root' = root2
         /\ stages' = Append(stages, stage)
         /\ UNCHANGED <<n, i, raw, record, vendor_id, processed_count, skipped_count,
                        error_details, start, trace, result, request>>

GateThenValidate ==
  /\ pc = "gate"
  /\ IF IsActive(record)
       THEN Continue("gate", "validate", record)
       ELSE EndIteration("Inactive", "gate", root, error_details,
                         processed_count, skipped_count)

\* lines 280-282
Gate ==
  /\ pc = "gate"
  /\ IF IsActive(record)
       THEN Continue("gate", "subst", record)
       ELSE EndIteration("Inactive", "gate", root, error_details,
                         processed_count, skipped_count)

SubstituteInPlace(r) ==
  IF r.exc # "" THEN Except(r.exc, "subst", root)
  ELSE /\ record' = r.val
       /\ raw' = r.val
       /\ stages' = Append(stages, "subst")
       /\ pc' = "validate"
       /\ UNCHANGED <<n, i, vendor_id, root, processed_count, skipped_count,
                      error_details, start, trace, result, request>>

\* line 285
SubstituteResult(r) ==
  IF r.exc # "" THEN Except(r.exc, "subst", root)
  ELSE Continue("subst", "validate", r.val)

Substitute ==
  /\ pc = "subst"
  /\ SubstituteResult(replace_text_tags(record))

ValidateRecordResultNoContinue(v) ==
  IF v.exc # "" THEN Except(v.exc, "validate", root)
  ELSE IF ~v.ok
    THEN /\ error_details' =
              Append(error_details,
                     [vendorId |-> vendor_id, reason |-> ReasonPrefix \o <<"): ">> \o v.msg])
         /\ skipped_count' = skipped_count + 1
         /\ stages' = Append(stages, "validate")
         /\ pc' = "xsd"
         /\ UNCHANGED <<n, i, raw, record, vendor_id, root, processed_count, start, trace, result, request>>
  ELSE Continue("validate", "xsd", record)

\* lines 288-294
ValidateRecordResult(v) ==
  IF v.exc # "" THEN Except(v.exc, "validate", root)
  ELSE IF ~v.ok
    THEN Skip("FieldInvalid", "validate", ReasonPrefix \o <<"): ">> \o v.msg, root)
  ELSE Continue("validate", "xsd", record)

ValidateRawRecord ==
  /\ pc = "validate"
  /\ ValidateRecordResult(validate_record(raw))

ValidateRecord ==
  /\ pc = "validate"
  /\ ValidateRecordResult(validate_record(record))

\* lines 296-302
ValidateXsdResult(v) ==
  IF v.exc # "" THEN Except(v.exc, "xsd", root)
  ELSE IF ~v.ok
    THEN Skip("ConstraintInvalid", "xsd",
              ReasonPrefix \o <<"): XSD error - ">> \o v.msg, root)
  ELSE Continue("xsd", "build", record)

ValidateXsd ==
  /\ pc = "xsd"
  /\ ValidateXsdResult(validate_xsd_constraints(record))

\* lines 305-363: the ad element is added to the document first, then filled
BuildResult(b, root2) ==
  IF b.exc # "" THEN Except(b.exc, "build", root2)
  ELSE EndIteration("Built", "build", root2, error_details,
                    processed_count + 1, skipped_count)

BuildFirst(b) == BuildResult(b, <<Elem("ad", <<>>, b.kids)>> \o root)

BuildWith(b) == BuildResult(b, Append(root, Elem("ad", <<>>, b.kids)))

Build ==
  /\ pc = "build"
  /\ BuildWith(build_ad(record))

\* lines 371-378
Return ==
  /\ pc = "loop"
  /\ i = n
  /\ pc' = "returned"
  /\ UNCHANGED <<n, i, raw, record, vendor_id, root, processed_count, skipped_count,
                 error_details, stages, start, trace, result, request>>

FetchMain == Fetch(RecordsMain)
Next == FetchMain \/ Gate \/ Substitute \/ ValidateRecord \/ ValidateXsd \/ Build \/ Return
Spec == Init /\ [][Next]_vars

\* the same function on lists of records that differ in the Available column
FetchGate == Fetch(RecordsGate)
NextGate == FetchGate \/ Gate \/ Substitute \/ ValidateRecord \/ ValidateXsd \/ Build \/ Return
SpecGate == Init /\ [][NextGate]_vars

\* the same function on lists of records that differ in the required fields
FetchFields == Fetch(RecordsFields)
NextFields ==
  FetchFields \/ Gate \/ Substitute \/ ValidateRecord \/ ValidateXsd \/ Build \/ Return
SpecFields == InitFamily /\ [][NextFields]_vars

\* the same function on lists of records that differ in the constrained fields
FetchXsd == Fetch(RecordsXsd)
NextXsd == FetchXsd \/ Gate \/ Substitute \/ ValidateRecord \/ ValidateXsd \/ Build \/ Return
SpecXsd == InitFamily /\ [][NextXsd]_vars

\* the same function on lists of valid records that differ in the price, the
\* attributes, the url and the images
FetchListing == Fetch(RecordsListing)
NextListing ==
  FetchListing \/ Gate \/ Substitute \/ ValidateRecord \/ ValidateXsd \/ Build \/ Return
SpecListing == InitFamily /\ [][NextListing]_vars

\* the same function on lists of records whose text fields carry tags
FetchTags == Fetch(RecordsTags)
NextTags == FetchTags \/ Gate \/ Substitute \/ ValidateRecord \/ ValidateXsd \/ Build \/ Return
SpecTags == InitFamily /\ [][NextTags]_vars

\* the same function on lists of valid records that differ in the preheader
\* and the description
FetchText == Fetch(RecordsText)
NextText == FetchText \/ Gate \/ Substitute \/ ValidateRecord \/ ValidateXsd \/ Build \/ Return
SpecText == InitFamily /\ [][NextText]_vars

\* ------------------------------------------------------------ src/main.py: generate_xml_feed
\* The loop of src/main.py takes the records as the loop of src/app.py does
\* (row_num and vendor_id, lines 190-191: Fetch) and returns as it does
\* (lines 272-279: Return); it has no substitution stage.
MainPyIsActive(r) == Upper(StrOf(GetOr(r, "Available", PyStr(<<>>)))) \in ActiveTokens

MainPyReasonPrefix == <<"Row ">> \o IntToStr(row_num) \o <<" (ID: ">> \o StrOf(vendor_id)

\* except (ValueError, TypeError)
MainPyCatches(exc) == exc \in {"ValueError", "TypeError"}

\* exc was raised in the try block: the except clause of lines 266-270, or
\* the exception leaves generate_xml_feed.
MainPyExcept(exc, stage, root2) ==
  IF MainPyCatches(exc)
    THEN Skip("Errored", stage,
              MainPyReasonPrefix \o <<"): skipped due to data error - ">> \o ExcText(exc)
                \o <<". Check number format.">>, root2)
    ELSE /\ pc' = "aborted"
         /\ root' = root2
         /\ stages' = Append(stages, stage)
         /\ UNCHANGED <<n, i, raw, record, vendor_id, processed_count, skipped_count,
                        error_details, start, trace, result, request>>

\* lines 195-196
MainPyGate ==
  /\ pc = "gate"
  /\ IF MainPyIsActive(record)
       THEN Continue("gate", "validate", record)
       ELSE EndIteration("Inactive", "gate", root, error_details,
                         processed_count, skipped_count)

\* lines 199-205
MainPyValidateRecordResult(v) ==
  IF ~v.ok
    THEN Skip("FieldInvalid", "validate",
              MainPyReasonPrefix \o <<"): skipped due to validation error - ">> \o v.msg
                \o <<".">>, root)
  ELSE Continue("validate", "xsd", record)

MainPyValidateRecord ==
  /\ pc = "validate"
  /\ MainPyValidateRecordResult(main_validate_record(record))

\* lines 208-214
MainPyValidateXsdResult(v) ==
  IF v.exc # "" THEN MainPyExcept(v.exc, "xsd", root)
  ELSE IF ~v.ok
    THEN Skip("ConstraintInvalid", "xsd",
              MainPyReasonPrefix \o <<"): skipped due to XSD non-compliance - ">> \o v.msg
                \o <<".">>, root)
  ELSE Continue("xsd", "build", record)

MainPyValidateXsd ==
  /\ pc = "xsd"
  /\ MainPyValidateXsdResult(main_validate_xsd_constraints(record))

\* lines 216-265: the ad element is added to the document first, then filled
MainPyBuildResult(b, root2) ==
  IF b.exc # "" THEN MainPyExcept(b.exc, "build", root2)
  ELSE EndIteration("Built", "build", root2, error_details,
                    processed_count + 1, skipped_count)

MainPyBuildWith(b) == MainPyBuildResult(b, Append(root, Elem("ad", <<>>, b.kids)))

MainPyBuild ==
  /\ pc = "build"
  /\ MainPyBuildWith(main_build_ad(record))

NextMainPy ==
  FetchMain \/ MainPyGate \/ MainPyValidateRecord \/ MainPyValidateXsd \/ MainPyBuild \/ Return
SpecMainPy == Init /\ [][NextMainPy]_vars

\* ------------------------------------------------------------ a validator called on its own
InitCall ==
  /\ n = 0
  /\ i = 0
  /\ pc = "call"
  /\ raw \in RecordsCall
  /\ record = raw
  /\ vendor_id = PyNone
  /\ root = <<>>
  /\ processed_count = 0
  /\ skipped_count = 0
  /\ error_details = <<>>
  /\ stages = <<>>
  /\ start = [ads |-> 0, errs |-> 0, processed |-> 0, skipped |-> 0]
  /\ trace = <<>>
  /\ NoRequest

Called(name, value) ==
  /\ pc = "call"
  /\ pc' = name
  /\ result' = value
  /\ UNCHANGED <<n, i, raw, record, vendor_id, root, processed_count, skipped_count,
                 error_details, stages, start, trace, request>>

\* validate_xsd_constraints(record) of src/app.py
CallValidateXsd == Called("app.validate_xsd_constraints", validate_xsd_constraints(record))
\* validate_xsd_constraints(record) of src/main.py
CallMainValidateXsd ==
  Called("main.validate_xsd_constraints", main_validate_xsd_constraints(record))

NextCall == CallValidateXsd \/ CallMainValidateXsd
SpecCall == InitCall /\ [][NextCall]_vars

\* ------------------------------------------------------------ the /generate-feed handler
\* A request: generate_xml_feed has not been called, latest.xml is absent or
\* holds the feed of an earlier request.
InitHandler ==
  /\ n = 0
  /\ i = 0
  /\ pc = "idle"
  /\ raw = EmptyDict
  /\ record = EmptyDict
  /\ vendor_id = PyNone
  /\ root = <<>>
  /\ processed_count = 0
  /\ skipped_count = 0
  /\ error_details = <<>>
  /\ stages = <<>>
  /\ start = [ads |-> 0, errs |-> 0, processed |-> 0, skipped |-> 0]
  /\ trace = <<>>
  /\ result = PyNone
  /\ handler = "fetch"
  /\ latest_xml \in {"absent", "previous"}
  /\ cloudinary_result = PyNone
  /\ cloudinary_error = PyNone
  /\ response = PyNone

\* generation_result["xml_content"]: the serialised document
xml_content == [encoding |-> "UTF-8", ads |-> root]

\* str(e) of what get_sheet_data, save_feed_locally and the upload raise
T_sheets_error == <<"Google Sheets is not reachable">>
T_save_error == <<"[Errno 28] No space left on device: 'xml_files/latest.xml'">>
T_not_configured == <<"Cloudinary not configured">>
T_upload_error == <<"Unexpected error - the upload was refused">>

\* the outer except clause: jsonify({"status": "error", "message": str(e)}), 500
ErrorResponse(message) ==
  /\ response' = [code |-> 500, body |-> [status |-> "error", message |-> message]]
  /\ handler' = "responded"

\* records = get_sheet_data(), and the call of generate_xml_feed(records)
GetSheetData ==
  /\ handler = "fetch"
  /\ \/ /\ \E len \in 0..MaxRecords : n' = len
        /\ pc' = "loop"
        /\ handler' = "generate"
        /\ UNCHANGED response
     \/ /\ ErrorResponse(T_sheets_error)
        /\ UNCHANGED <<n, pc>>
  /\ UNCHANGED <<i, raw, record, vendor_id, root, processed_count, skipped_count,
                 error_details, stages, start, trace, result, latest_xml,
                 cloudinary_result, cloudinary_error>>

\* an exception left generate_xml_feed: the outer except clause
GenerationFailed ==
  /\ handler = "generate"
  /\ pc = "aborted"
  /\ ErrorResponse(ExcText("OverflowError"))
  /\ UNCHANGED <<n, i, pc, raw, record, vendor_id, root, processed_count, skipped_count,
                 error_details, stages, start, trace, result, latest_xml,
                 cloudinary_result, cloudinary_error>>

\* local_save = save_feed_locally(generation_result["xml_content"]): the
\* file is written, or open() or write() raises and the exception goes to
\* the outer except clause (a failing write leaves a truncated file).
SaveFeedLocally ==
  /\ handler = "generate"
  /\ pc = "returned"
  /\ \/ /\ latest_xml' = xml_content
        /\ handler' = "upload"
        /\ UNCHANGED response
     \/ /\ latest_xml' \in {latest_xml, "truncated"}
        /\ ErrorResponse(T_save_error)
  /\ UNCHANGED <<n, i, pc, raw, record, vendor_id, root, processed_count, skipped_count,
                 error_details, stages, start, trace, result, cloudinary_result,
                 cloudinary_error>>

UploadFailedAborts(message) ==
  /\ cloudinary_error' = PyStr(message)
  /\ ErrorResponse(message)
  /\ UNCHANGED cloudinary_result

\* except Exception as e: cloudinary_error = str(e)
UploadFailed(message) ==
  /\ cloudinary_error' = PyStr(message)
  /\ handler' = "respond"
  /\ UNCHANGED <<cloudinary_result, response>>

\* the inner try block around upload_feed_to_cloudinary
UploadFeedToCloudinary ==
  /\ handler = "upload"
  /\ \/ /\ cloudinary_result' = [secure_url |-> PyStr(<<"https://res.cloudinary.com/latest">>)]
        /\ handler' = "respond"
        /\ UNCHANGED <<cloudinary_error, response>>
     \/ \E message \in {T_not_configured, T_upload_error} : UploadFailed(message)
  /\ UNCHANGED <<n, i, pc, raw, record, vendor_id, root, processed_count, skipped_count,
                 error_details, stages, start, trace, result, latest_xml>>

\* the response dict and return jsonify(response), 200; a key the dict does
\* not have is None here
RespondWith(message, uploaded, stats) ==
  /\ handler = "respond"
  /\ response' =
       [code |-> 200,
        body |-> [status |-> "success",
                  message |-> IF cloudinary_result # PyNone THEN message \o uploaded
                              ELSE message,
                  local_feed_url |-> "/xml",
                  stats |-> stats,
                  cloudinary_feed_url |->
                    IF cloudinary_result # PyNone THEN cloudinary_result.secure_url
                    ELSE PyNone,
                  cloudinary_error |->
                    IF cloudinary_result = PyNone /\ Truthy(cloudinary_error)
                      THEN cloudinary_error
                      ELSE PyNone]]
  /\ handler' = "responded"
  /\ UNCHANGED <<n, i, pc, raw, record, vendor_id, root, processed_count, skipped_count,
                 error_details, stages, start, trace, result, latest_xml,
                 cloudinary_result, cloudinary_error>>

Respond ==
  RespondWith(<<"Feed generated and saved locally.">>, <<" Uploaded to Cloudinary.">>,
              [total_rows |-> n, added_to_xml |-> processed_count,
               skipped |-> skipped_count, errors |-> error_details])

\* src/main.py, lines 336-355
MainPyRespond ==
  RespondWith(<<"Feed successfully generated and saved locally.">>,
              <<" Also uploaded to Cloudinary.">>,
              [total_rows_found_in_sheet |-> n, rows_added_to_xml |-> processed_count,
               rows_skipped |-> skipped_count, errors |-> error_details])

\* No exception leaves generate_xml_feed of src/app.py (C1), so the outer
\* except clause is not reached from it.
FetchHandler == Fetch(RecordsHandler)
NextHandler ==
  \/ GetSheetData
  \/ FetchHandler \/ Gate \/ Substitute \/ ValidateRecord \/ ValidateXsd \/ Build \/ Return
  \/ SaveFeedLocally \/ UploadFeedToCloudinary \/ Respond
SpecHandler == InitHandler /\ [][NextHandler]_vars

\* the handler of src/main.py (lines 317-358) around its generate_xml_feed
NextHandlerMainPy ==
  \/ GetSheetData
  \/ FetchHandler \/ MainPyGate \/ MainPyValidateRecord \/ MainPyValidateXsd \/ MainPyBuild
  \/ Return
  \/ GenerationFailed \/ SaveFeedLocally \/ UploadFeedToCloudinary \/ MainPyRespond
SpecHandlerMainPy == InitHandler /\ [][NextHandlerMainPy]_vars

\* ------------------------------------------------------------ properties
Last(seq) == seq[Len(seq)]
Outcomes == {"Inactive", "FieldInvalid", "ConstraintInvalid", "Errored", "Built"}
Count(outcome) == Cardinality({k \in 1..Len(trace) : trace[k].outcome = outcome})
Returned == pc = "returned"
\* between two records, or after the last one
AtLoop == pc \in {"loop", "returned"}

\* C1: generate_xml_feed never aborts the batch: no exception leaves the
\* function (pc is never "aborted"); whatever is raised while one active
\* record is processed becomes exactly one error entry for that record, with
\* no processed_count increment; and the function returns only after every
\* one of the n records was taken, so the records after a failing one are
\* still processed.
C1_BatchNeverAborts ==
  /\ pc # "aborted"
  /\ \A k \in 1..Len(trace) :
       trace[k].outcome = "Errored" =>
         /\ trace[k].errs = 1
         /\ trace[k].skipped = 1
         /\ trace[k].processed = 0
  /\ Returned => (i = n /\ Len(trace) = n)

\* An exception of each class was raised (in substitution, in validation and
\* in construction), and a later record still became a listing.
C1_Witness ==
  /\ Returned
  /\ Len(trace) = 3
  /\ trace[1].outcome = "Errored" /\ trace[1].stages = <<"gate", "subst">>
  /\ trace[2].outcome = "Errored" /\ trace[2].stages = <<"gate", "subst", "validate", "xsd">>
  /\ Contains(error_details[1].reason, <<"TypeError">>)
  /\ Contains(error_details[2].reason, <<"OverflowError">>)
  /\ trace[3].outcome = "Built"

RequiredChildren == {"vendorId", "title", "description", "categoryId", "priceType", "price"}
ChildTags(ad) == {ad.kids[j].tag : j \in 1..Len(ad.kids)}

\* C2: after generate_xml_feed returns, the document has one listing element
\* per record counted in processed_count and none for any other record: their
\* number is processed_count, each carries the six required children, and a
\* record that ended with an error entry added no element.
C2_OneListingPerProcessedRecord ==
  Returned =>
    /\ Len(root) = processed_count
    /\ \A j \in 1..Len(root) : RequiredChildren \subseteq ChildTags(root[j])
    /\ \A k \in 1..Len(trace) : trace[k].errs > 0 => trace[k].ads = 0

\* C3: processed_count + skipped_count + (records rejected by the activity
\* gate) is the number of records taken so far, and n at the return; inactive
\* records are counted in neither counter.
C3_CountsAddUp ==
  /\ Len(trace) = i
  /\ processed_count + skipped_count + Count("Inactive") = i
  /\ \A k \in 1..Len(trace) :
       trace[k].outcome = "Inactive" => (trace[k].processed = 0 /\ trace[k].skipped = 0)
  /\ Returned => processed_count + skipped_count + Count("Inactive") = n

C3_Witness ==
  /\ Returned
  /\ n = 3
  /\ processed_count = 1
  /\ skipped_count = 1
  /\ Count("Inactive") = 1

\* C4: every active record that is not counted in processed_count has exactly
\* one error entry; no record has more than one error entry, or an error
\* entry and a processed_count increment; skipped_count is the length of
\* error_details.
C4_OneErrorEntryPerSkippedRecord ==
  /\ skipped_count = Len(error_details)
  /\ Len(error_details) - start.errs <= 1
  /\ ~(Len(error_details) > start.errs /\ processed_count > start.processed)
  /\ \A k \in 1..Len(trace) :
       /\ trace[k].errs \in {0, 1}
       /\ trace[k].processed \in {0, 1}
       /\ trace[k].errs + trace[k].processed <= 1
       /\ trace[k].active => trace[k].errs + trace[k].processed = 1

C4_Witness ==
  /\ Returned
  /\ \E k \in 1..Len(trace) :
       trace[k].active /\ trace[k].outcome = "FieldInvalid" /\ trace[k].errs = 1
  /\ \E k \in 1..Len(trace) :
       trace[k].active /\ trace[k].outcome = "Errored" /\ trace[k].errs = 1
  /\ \E k \in 1..Len(trace) : trace[k].outcome = "Built"

\* the Available value, stringified, trimmed and upper-cased, is not one of
\* TRUE, YES, 1; a record with no Available key is one of these
NotInTruthySet(r) ==
  \/ "Available" \notin DOMAIN r
  \/ Upper(Strip(StrOf(r["Available"]))) \notin {T_TRUE, T_YES, <<"1">>}

C5_NoLaterStage ==
  pc \in {"subst", "validate", "xsd", "build"} => ~NotInTruthySet(raw)

C5_PureSkip ==
  (pc = "gate" /\ NotInTruthySet(raw)) =>
    /\ pc' = "loop"
    /\ UNCHANGED <<root, error_details, processed_count, skipped_count>>
    /\ Last(trace').stages = <<"gate">>

\* C5: a record whose Available value is not in the truthy set (or is absent)
\* gives no listing and no error entry and leaves processed_count,
\* skipped_count and error_details as they were; the loop goes straight on to
\* the next record, so tag substitution and validation never run on it.
C5_InactiveIsPureSkip == []C5_NoLaterStage /\ [][C5_PureSkip]_vars

\* A record with no Available key that would otherwise have raised was
\* skipped, after a record that left an error entry.
C5_Witness ==
  /\ pc = "loop"
  /\ Len(trace) = 2
  /\ "Available" \notin DOMAIN raw
  /\ Get(raw, "categoryId") = PyStr(T_inf)
  /\ Last(trace).outcome = "Inactive"
  /\ Len(error_details) = 1

StageOrder == <<"gate", "subst", "validate", "xsd", "build">>
IsPrefix(s, t) == Len(s) <= Len(t) /\ SubSeq(t, 1, Len(s)) = s
FirstStages(k) == SubSeq(StageOrder, 1, k)

C6_StagesInOrder ==
  /\ pc = "gate" => stages = <<>>
  /\ pc = "subst" => stages = FirstStages(1)
  /\ pc = "validate" => stages = FirstStages(2)
  /\ pc = "xsd" => (stages = FirstStages(3) /\ validate_record(record).ok)
  /\ pc = "build" =>
       /\ stages = FirstStages(4)
       /\ validate_record(record).ok
       /\ validate_xsd_constraints(record) = Passed
  /\ \A k \in 1..Len(trace) :
       /\ trace[k].outcome \in Outcomes
       /\ trace[k].outcome = "Inactive" => trace[k].stages = FirstStages(1)
       /\ trace[k].outcome = "FieldInvalid" => trace[k].stages = FirstStages(3)
       /\ trace[k].outcome = "ConstraintInvalid" => trace[k].stages = FirstStages(4)
       /\ trace[k].outcome = "Built" => trace[k].stages = StageOrder
       /\ trace[k].outcome = "Errored" =>
            (IsPrefix(trace[k].stages, StageOrder) /\ Len(trace[k].stages) >= 2)

C6_TerminalIsFinal ==
  /\ Len(trace') >= Len(trace)
  /\ \A k \in 1..Len(trace) : trace'[k] = trace[k]
  /\ Len(trace') > Len(trace) => (Len(trace') = Len(trace) + 1 /\ pc' = "loop")
  /\ pc = "loop" => (pc' = "returned" \/ (pc' = "gate" /\ stages' = <<>>))

\* C6: a record goes through the stages in the order gate, substitution,
\* required-field validation, constraint validation, construction; constraint
\* validation runs only after required-field validation passed, construction
\* only after both passed; once a record has its outcome no further stage runs
\* on it and the outcome is never changed.
C6_FixedStageOrder == []C6_StagesInOrder /\ [][C6_TerminalIsFinal]_vars

C6_Witness ==
  /\ Returned
  /\ Len(trace) = 3
  /\ trace[1].outcome = "FieldInvalid"
  /\ trace[2].outcome = "ConstraintInvalid"
  /\ trace[3].outcome = "Built"

\* the outcome of the record that was taken last, and its error entry
Done == pc = "loop" /\ i > 0
Ran(stage) == \E j \in 1..Len(Last(trace).stages) : Last(trace).stages[j] = stage
LastReason == Last(error_details).reason
\* the prefix of the reason generate_xml_feed gives for the last record
LastPrefix == <<"Row ">> \o IntToStr(i + 1) \o <<" (">> \o StrOf(vendor_id)

\* the field is present and its string form is not blank
NonBlank(r, field) ==
  /\ field \in DOMAIN r
  /\ r[field] # PyNone
  /\ Strip(StrOf(r[field])) # <<>>

RECURSIVE FirstBlank(_, _)
FirstBlank(r, fields) ==
  IF fields = <<>> THEN ""
  ELSE IF ~NonBlank(r, Head(fields)) THEN Head(fields)
  ELSE FirstBlank(r, Tail(fields))

\* C7: an active record that, after substitution, lacks one or more of the
\* required fields (absent, or blank in its string form) gets exactly one
\* error entry, whose reason is "missing" with the first such field in the
\* order vendorId, title, description, categoryId, priceType, and nothing
\* else is reported for it.
C7_FirstMissingFieldReported ==
  (Done /\ Ran("validate") /\ FirstBlank(record, required_fields) # "") =>
    /\ Last(trace).outcome = "FieldInvalid"
    /\ Last(trace).errs = 1
    /\ LastReason = LastPrefix \o <<"): ", "missing '", FirstBlank(record, required_fields), "'">>

\* C8: validate_record accepts the record it is given if and only if each of
\* the five required fields is present and non-blank in its string form; so
\* a whitespace-only value is rejected and the number 0 is accepted.
C8_AcceptsIffNonBlank ==
  (Done /\ Ran("validate")) =>
    ((Last(trace).outcome # "FieldInvalid")
       <=> (\A j \in 1..Len(required_fields) : NonBlank(record, required_fields[j])))

\* a text made of tags only
Tags == {TagOrder[j] : j \in 1..Len(TagOrder)}
TagsOnly(v) == v.k = "str" /\ v.s # <<>> /\ \A j \in 1..Len(v.s) : v.s[j] \in Tags
\* the required fields before the given one, in validator order
FieldsBefore(field) ==
  {required_fields[j] : j \in {h \in 1..Len(required_fields) :
                                 \E m \in (h + 1)..Len(required_fields) :
                                   required_fields[m] = field}}
SubstitutedFields == {"title", "description"}
ReportedMissing(field) ==
  /\ Last(trace).outcome = "FieldInvalid"
  /\ LastReason = LastPrefix \o <<"): ", "missing '", field, "'">>

\* C9: the required-field check is made on the record replace_text_tags
\* returned: when the raw title or description consists of tags only, it is
\* reported as missing exactly when the substituted text is empty (and no
\* earlier required field is missing); when the substituted text is not empty
\* the field is never reported as missing.
C9_ValidatesSubstitutedRecord ==
  (Done /\ Ran("validate")) =>
    \A field \in SubstitutedFields :
      TagsOnly(Get(raw, field)) =>
        /\ Get(record, field).s # <<>> => ~ReportedMissing(field)
        /\ (Get(record, field).s = <<>>
              /\ \A g \in FieldsBefore(field) : Truthy(Get(record, g)))
             => ReportedMissing(field)

\* A title made of one tag that resolved to the empty text was reported as
\* missing.
C9_Witness ==
  /\ Done
  /\ Get(raw, "title") = PyStr(<<"{{area_Max}}">>)
  /\ Get(record, "title") = PyStr(<<>>)
  /\ ReportedMissing("title")

\* A description made of one tag that resolved to a text was accepted.
C9_WitnessPresent ==
  /\ Done
  /\ Get(raw, "description") = PyStr(<<"{{Centre_description}}">>)
  /\ Get(record, "description").s # <<>>
  /\ Last(trace).outcome = "Built"

\* the three constraints, as conditions on the record
VendorIdTooLong(r) == Len(StrOf(GetOr(r, "vendorId", PyStr(<<>>)))) > XSD_VENDOR_ID_MAX_LENGTH
PriceTypeUnknown(r) ==
  /\ StrOf(GetOr(r, "priceType", PyStr(<<>>))) # <<>>
  /\ Upper(StrOf(GetOr(r, "priceType", PyStr(<<>>)))) \notin XSD_ALLOWED_PRICE_TYPES
CategoryIdNotANumber(r) == IntOfFloat(Get(r, "categoryId")).exc \in {"ValueError", "TypeError"}
CategoryIdNotPositive(r) ==
  IntOfFloat(Get(r, "categoryId")).exc = "" /\ IntOfFloat(Get(r, "categoryId")).val <= 0

\* the reasons of the three checks
ReasonHeads ==
  <<"vendorId too long (", "invalid priceType: '", "invalid categoryId: '",
    "categoryId must be positive, got: ">>
\* the reason of the last record is the one that starts with ReasonHeads[h]
ReportedConstraint(h) ==
  /\ Last(trace).outcome = "ConstraintInvalid"
  /\ Last(trace).errs = 1
  /\ SubSeq(LastReason, 1, Len(LastPrefix) + 2)
       = LastPrefix \o <<"): XSD error - ", ReasonHeads[h]>>
  /\ \A g \in 1..Len(ReasonHeads) : g # h => ~Contains(LastReason, <<ReasonHeads[g]>>)

\* C10: validate_xsd_constraints reports the vendorId length first, then the
\* priceType, then the categoryId: of the constraints a record violates, the
\* reason given is the one of the earliest in that order, and no other.
C10_EarliestConstraintReported ==
  (Done /\ Ran("xsd")) =>
    /\ VendorIdTooLong(record) => ReportedConstraint(1)
    /\ (~VendorIdTooLong(record) /\ PriceTypeUnknown(record)) => ReportedConstraint(2)
    /\ (~VendorIdTooLong(record) /\ ~PriceTypeUnknown(record) /\ CategoryIdNotANumber(record))
         => ReportedConstraint(3)
    /\ (~VendorIdTooLong(record) /\ ~PriceTypeUnknown(record) /\ CategoryIdNotPositive(record))
         => ReportedConstraint(4)

\* A record that violates all three constraints was reported for its
\* vendorId.
C10_Witness ==
  /\ Done
  /\ VendorIdTooLong(record)
  /\ PriceTypeUnknown(record)
  /\ CategoryIdNotANumber(record)
  /\ ReportedConstraint(1)

\* A record that violates the last two constraints was reported for its
\* priceType.
C10_WitnessPriceType ==
  /\ Done
  /\ ~VendorIdTooLong(record)
  /\ PriceTypeUnknown(record)
  /\ CategoryIdNotPositive(record)
  /\ ReportedConstraint(2)

\* the categoryId cannot be made an integer: int(float(...)) raises
NotCoercible(v) == IntOfFloat(v).exc # ""

\* C11: an active record whose categoryId cannot be coerced to an integer
\* (text that is no number, NaN, or a value that parses to infinity) is
\* skipped with one error entry whose reason contains the raw categoryId
\* text, and that reason is not the one given for an integer <= 0.
C11_RawCategoryIdInReason ==
  (Done /\ Ran("xsd") /\ ~VendorIdTooLong(record) /\ ~PriceTypeUnknown(record)
     /\ NotCoercible(Get(record, "categoryId"))) =>
    /\ Last(trace).outcome \in {"ConstraintInvalid", "Errored"}
    /\ Last(trace).errs = 1
    /\ Last(trace).ads = 0
    /\ Contains(LastReason, StrOf(Get(record, "categoryId")))
    /\ ~Contains(LastReason, <<ReasonHeads[4]>>)

\* the texts of the children of an element that have the given tag
TextsOf(ad, tag) == {ad.kids[j].text : j \in {h \in 1..Len(ad.kids) : ad.kids[h].tag = tag}}
\* the last record added an element to the document
AddedListing == Done /\ Last(trace).ads = 1

\* C12: every listing in the document has a vendorId of at most 64
\* characters, a categoryId that is the truncated input value and strictly
\* positive, and a priceType that is the upper-cased input value and one of the
\* eleven allowed tokens.
C12_ListingsSatisfyConstraints ==
  AddedListing =>
    /\ \E t \in TextsOf(Last(root), "vendorId") : Len(t) <= XSD_VENDOR_ID_MAX_LENGTH
    /\ TextsOf(Last(root), "categoryId") = {IntToStr(IntOfFloat(Get(record, "categoryId")).val)}
    /\ IntOfFloat(Get(record, "categoryId")).val > 0
    /\ TextsOf(Last(root), "priceType") = {Upper(StrOf(Get(record, "priceType")))}
    /\ TextsOf(Last(root), "priceType") \subseteq XSD_ALLOWED_PRICE_TYPES

\* the number of characters of the record's vendorId
VendorIdLength == Len(StrOf(GetOr(record, "vendorId", PyStr(<<>>))))
\* the length-exceeded reason for a vendorId of the given length
TooLongReason(length) ==
  LastPrefix \o <<"): XSD error - ", "vendorId too long (">> \o IntToStr(length)
    \o <<" > ", "6", "4", ")">>

\* C13: a record whose vendorId has more than 64 characters is skipped with
\* the length-exceeded reason, which gives the actual length and the limit 64;
\* a vendorId of 64 characters or fewer is not refused for its length.
C13_VendorIdLengthLimit ==
  (Done /\ Ran("xsd")) =>
    /\ VendorIdLength > 64 =>
         /\ Last(trace).outcome = "ConstraintInvalid"
         /\ Last(trace).ads = 0
         /\ LastReason = TooLongReason(VendorIdLength)
    /\ VendorIdLength <= 64 =>
         (Last(trace).errs = 1 => ~Contains(LastReason, <<ReasonHeads[1]>>))

\* A vendorId of 65 characters was refused, with 65 and 64 in the reason.
C13_Witness ==
  /\ Done
  /\ VendorIdLength = 65
  /\ LastReason = TooLongReason(65)
  /\ Contains(LastReason, <<"6", "5", " > ", "6", "4">>)

\* A vendorId of exactly 64 characters went into a listing.
C13_WitnessAtLimit ==
  /\ Done
  /\ VendorIdLength = 64
  /\ Last(trace).outcome = "Built"

\* the children of an element that have the given tag, in order
RECURSIVE KidsWithTag(_, _)
KidsWithTag(kids, tag) ==
  IF kids = <<>> THEN <<>>
  ELSE (IF Head(kids).tag = tag THEN <<Head(kids)>> ELSE <<>>) \o KidsWithTag(Tail(kids), tag)

\* the two price types that require a price
MandatoryPriceTypes ==
  { <<"F", "I", "X", "E", "D", "_", "P", "R", "I", "C", "E">>,
    <<"B", "I", "D", "D", "I", "N", "G", "_", "F", "R", "O", "M">> }
\* the priceType of the last listing is one of them
ListingPriceTypeMandatory ==
  \E t \in TextsOf(Last(root), "priceType") : t \in MandatoryPriceTypes

\* C14: a listing whose priceType is not FIXED_PRICE or BIDDING_FROM has
\* exactly one price element and its text is 0, whatever the record's price
\* is (absent, text, a positive number, infinity).
C14_OptionalPriceIsZero ==
  (AddedListing /\ TextsOf(Last(root), "priceType") # {} /\ ~ListingPriceTypeMandatory) =>
    /\ Len(KidsWithTag(Last(root).kids, "price")) = 1
    /\ TextsOf(Last(root), "price") = {<<"0">>}

\* A negotiable listing with the price 250 was emitted with the price 0.
C14_Witness ==
  /\ AddedListing
  /\ Get(raw, "price") = PyStr(<<"2", "5", "0">>)
  /\ TextsOf(Last(root), "priceType") = {<<"N", "E", "G", "O", "T", "I", "A", "B", "L", "E">>}
  /\ TextsOf(Last(root), "price") = {<<"0">>}

\* prices and what a listing of a type that requires a price is to show for
\* them: the price truncated toward zero, 1 when that is not positive or the
\* price is absent, empty or no number
PriceTable ==
  { <<PyNone, <<"1">>>>, <<PyStr(<<>>), <<"1">>>>, <<PyStr(<<"0">>), <<"1">>>>,
    <<PyStr(<<"0", ".", "9">>), <<"1">>>>, <<PyStr(<<"-", "5">>), <<"1">>>>,
    <<PyStr(<<"2", "5", "0">>), <<"2", "5", "0">>>>,
    <<PyStr(<<"1", "2", ".", "7">>), <<"1", "2">>>>, <<PyStr(T_abc), <<"1">>>>,
    <<PyStr(<<"n", "a", "n">>), <<"1">>>>, <<PyStr(<<" ", "7", " ">>), <<"7">>>>,
    <<PyInt(250), <<"2", "5", "0">>>>, <<PyInt(0), <<"1">>>> }
InPriceTable(v) == \E c \in PriceTable : c[1] = v
ExpectedPrice(v) == (CHOOSE c \in PriceTable : c[1] = v)[2]
RequiresPrice(r) == Upper(Strip(StrOf(Get(r, "priceType")))) \in MandatoryPriceTypes

\* C15: under FIXED_PRICE or BIDDING_FROM the price of the listing is the
\* record's price truncated toward zero when that is > 0, and 1 when the
\* price is absent, empty, no number, or truncates to a value <= 0; a price
\* that is emitted under these types is never 0 or negative.
C15_MandatoryPriceAtLeastOne ==
  /\ (Done /\ Ran("build") /\ RequiresPrice(record) /\ InPriceTable(Get(record, "price"))) =>
       /\ Last(trace).outcome = "Built"
       /\ Len(KidsWithTag(Last(root).kids, "price")) = 1
       /\ TextsOf(Last(root), "price") = {ExpectedPrice(Get(record, "price"))}
  /\ (AddedListing /\ ListingPriceTypeMandatory) =>
       \A t \in TextsOf(Last(root), "price") : t # <<"0">> /\ Head(t) # "-"

\* The price 0.9 under BIDDING_FROM was emitted as 1.
C15_Witness ==
  /\ AddedListing
  /\ Get(raw, "price") = PyStr(<<"0", ".", "9">>)
  /\ TextsOf(Last(root), "priceType") = {<<"B", "I", "D", "D", "I", "N", "G", "_", "F", "R", "O", "M">>}
  /\ TextsOf(Last(root), "price") = {<<"1">>}

\* C16: get_price_with_fallback and get_attribute_value_with_fallback return
\* a value for every input, also for text that parses to infinity or NaN;
\* neither raises.
C16_FallbacksNeverRaise ==
  pc = "build" =>
    /\ get_price_with_fallback(Get(record, "price"), listing_price_type(record)).exc = ""
    /\ get_attribute_value_with_fallback("area_sqm", Get(record, "area_sqm")).exc = ""

\* the (name, value) pairs of the attributes of a listing, in order
AttributePairsOf(blocks) ==
  IF blocks = <<>> THEN <<>>
  ELSE [j \in 1..Len(blocks[1].kids) |->
         <<blocks[1].kids[j].kids[1].text[1], blocks[1].kids[j].kids[2].text>>]
AttributePairs(ad) == AttributePairsOf(KidsWithTag(ad.kids, "attributes"))
AttributeValues(ad, key) ==
  {AttributePairs(ad)[j][2] : j \in {h \in 1..Len(AttributePairs(ad)) : AttributePairs(ad)[h][1] = key}}
BuiltListing == Done /\ Last(trace).outcome = "Built"

\* area values and what the listing is to show for them: the truncated
\* integer when it is > 0, else 1
AreaTable ==
  { <<PyStr(<<>>), <<"1">>>>, <<PyStr(<<" ">>), <<"1">>>>, <<PyStr(<<"0">>), <<"1">>>>,
    <<PyStr(<<"-", "5">>), <<"1">>>>, <<PyStr(<<"1", "2", ".", "7">>), <<"1", "2">>>>,
    <<PyStr(<<"4", "0">>), <<"4", "0">>>>, <<PyStr(T_abc), <<"1">>>>,
    <<PyStr(<<"n", "a", "n">>), <<"1">>>>, <<PyStr(<<"1", "e", "2">>), <<"1", "0", "0">>>>,
    <<PyInt(40), <<"4", "0">>>>, <<PyInt(0), <<"1">>>> }
InAreaTable(v) == \E c \in AreaTable : c[1] = v
ExpectedArea(v) == (CHOOSE c \in AreaTable : c[1] = v)[2]
PassThroughColumns == {"property_type", "deal_type"}

\* C17: the area_sqm attribute of a listing is the input truncated toward
\* zero, as an integer text, when that is > 0, and 1 when the input is empty,
\* no number or truncates to <= 0; property_type and deal_type are emitted as
\* they are, trimmed.
C17_AreaFallbackAndPassThrough ==
  BuiltListing =>
    /\ InAreaTable(Get(raw, "area_sqm")) =>
         AttributeValues(Last(root), "area_sqm") = {ExpectedArea(Get(raw, "area_sqm"))}
    /\ \A key \in PassThroughColumns :
         key \in DOMAIN raw =>
           AttributeValues(Last(root), key) = {Strip(StrOf(raw[key]))} \ {<<>>}

\* The area 12.7 was emitted as 12, next to a trimmed property_type.
C17_Witness ==
  /\ BuiltListing
  /\ Get(raw, "area_sqm") = PyStr(<<"1", "2", ".", "7">>)
  /\ AttributeValues(Last(root), "area_sqm") = {<<"1", "2">>}
  /\ AttributeValues(Last(root), "property_type") = {<<"o", "f", "f", "i", "c", "e">>}

\* the attribute columns whose key is in the record and whose final value is
\* not empty, in the order of the fixed list
RECURSIVE PresentColumns(_, _)
PresentColumns(r, columns) ==
  IF columns = <<>> THEN <<>>
  ELSE (IF Head(columns) \in DOMAIN r
          /\ (Head(columns) = "area_sqm" \/ Strip(StrOf(r[Head(columns)])) # <<>>)
          THEN <<Head(columns)>> ELSE <<>>)
       \o PresentColumns(r, Tail(columns))

\* C18: the attributes of a listing are those of area_sqm, property_type,
\* deal_type, in that order, whose key is in the record and whose final value
\* is not empty: an area_sqm that is present but empty gives area_sqm = 1, an
\* absent one gives nothing, and there is an attributes block exactly when
\* there is an attribute.
C18_AttributesByPresence ==
  BuiltListing =>
    /\ [j \in 1..Len(AttributePairs(Last(root))) |-> AttributePairs(Last(root))[j][1]]
         = PresentColumns(raw, <<"area_sqm", "property_type", "deal_type">>)
    /\ Len(KidsWithTag(Last(root).kids, "attributes"))
         = (IF PresentColumns(raw, <<"area_sqm", "property_type", "deal_type">>) = <<>>
              THEN 0 ELSE 1)
    /\ Get(raw, "area_sqm") = PyStr(<<>>) => AttributeValues(Last(root), "area_sqm") = {<<"1">>}
    /\ "area_sqm" \notin DOMAIN raw => AttributeValues(Last(root), "area_sqm") = {}

\* An empty area_sqm and an empty property_type next to a deal_type gave the
\* attributes area_sqm = 1 and deal_type, in that order.
C18_Witness ==
  /\ BuiltListing
  /\ Get(raw, "area_sqm") = PyStr(<<>>)
  /\ Get(raw, "property_type") = PyStr(<<>>)
  /\ AttributePairs(Last(root)) = << <<"area_sqm", <<"1">>>>, <<"deal_type", <<"r", "e", "n", "t">>>> >>

\* the text starts with http:// or https://
IsHttp(t) ==
  \/ (Len(t) >= 7 /\ SubSeq(t, 1, 7) = <<"h", "t", "t", "p", ":", "/", "/">>)
  \/ (Len(t) >= 8 /\ SubSeq(t, 1, 8) = <<"h", "t", "t", "p", "s", ":", "/", "/">>)
\* the value of a column is an address that may be emitted
ValidUrlValue(v) == v # PyNone /\ IsHttp(Strip(StrOf(v)))
\* the url attributes of the images of a listing, in order
ImageUrlsOf(media) ==
  IF media = <<>> THEN <<>> ELSE [j \in 1..Len(media[1].kids) |-> media[1].kids[j].url]
ImageUrls(ad) == ImageUrlsOf(KidsWithTag(ad.kids, "media"))
UrlColumns == <<"image_link", "img_2", "img_3", "img_10", "url">>
\* nothing but the url and image columns can keep the record from a listing
OnlyMediaColumns(r) == "price" \notin DOMAIN r /\ "area_sqm" \notin DOMAIN r

\* C19: every url element and every image url of a listing starts with
\* http:// or https://; a url, image_link or img_N value that is blank or
\* starts with something else is left out, gives no error entry and does not
\* keep the listing from being built.
C19_OnlyHttpUrlsEmitted ==
  /\ AddedListing =>
       /\ \A t \in TextsOf(Last(root), "url") : IsHttp(t)
       /\ \A j \in 1..Len(ImageUrls(Last(root))) : IsHttp(ImageUrls(Last(root))[j])
  /\ (Done /\ Ran("build") /\ OnlyMediaColumns(raw)) =>
       /\ Last(trace).outcome = "Built"
       /\ Last(trace).errs = 0
       /\ ~ValidUrlValue(Get(raw, "url")) => TextsOf(Last(root), "url") = {}
       /\ \A j \in 1..Len(UrlColumns) :
            ~ValidUrlValue(Get(raw, UrlColumns[j])) =>
              \A h \in 1..Len(ImageUrls(Last(root))) :
                ImageUrls(Last(root))[h] # Strip(StrOf(Get(raw, UrlColumns[j])))

\* A record with an ftp url, an ftp img_2 and an upper-case HTTP img_10 became
\* a listing with its one valid image and no url element.
C19_Witness ==
  /\ BuiltListing
  /\ Get(raw, "url") = PyStr(T_ftp)
  /\ Get(raw, "img_2") = PyStr(T_ftp)
  /\ Get(raw, "img_10") = PyStr(<<"H", "T", "T", "P", ":", "/", "/", "x">>)
  /\ Get(raw, "image_link") = PyStr(<<" ">> \o T_http \o <<" ">>)
  /\ ImageUrls(Last(root)) = <<T_http>>
  /\ TextsOf(Last(root), "url") = {}
  /\ Last(trace).errs = 0

\* the trimmed valid addresses of the columns, in the order of the columns
RECURSIVE ValidImages(_, _)
ValidImages(r, columns) ==
  IF columns = <<>> THEN <<>>
  ELSE (IF ValidUrlValue(Get(r, Head(columns)))
          THEN <<Strip(StrOf(Get(r, Head(columns))))>> ELSE <<>>)
       \o ValidImages(r, Tail(columns))
ImageColumnOrder ==
  <<"image_link", "img_2", "img_3", "img_4", "img_5", "img_6", "img_7", "img_8", "img_9",
    "img_10">>

\* C20: the images of a listing are the valid addresses of image_link, img_2,
\* ..., img_10, in that order: a valid image_link is the first image, there
\* are at most ten, and the listing has a media block exactly when it has an
\* image.
C20_ImagesInColumnOrder ==
  BuiltListing =>
    /\ ImageUrls(Last(root)) = ValidImages(raw, ImageColumnOrder)
    /\ Len(ImageUrls(Last(root))) <= 10
    /\ ValidUrlValue(Get(raw, "image_link")) =>
         Head(ImageUrls(Last(root))) = Strip(StrOf(Get(raw, "image_link")))
    /\ Len(KidsWithTag(Last(root).kids, "media"))
         = (IF ValidImages(raw, ImageColumnOrder) = <<>> THEN 0 ELSE 1)

\* A record with all ten image columns valid became a listing with ten
\* images, image_link first and img_10 last.
C20_Witness ==
  /\ BuiltListing
  /\ Len(ImageUrls(Last(root))) = 10
  /\ ImageUrls(Last(root))[1] = UrlOf("image_link").s
  /\ ImageUrls(Last(root))[2] = UrlOf("img_2").s
  /\ ImageUrls(Last(root))[10] = UrlOf("img_10").s

\* A record with no valid image became a listing without a media block.
C20_WitnessNoMedia ==
  /\ BuiltListing
  /\ Get(raw, "image_link") = PyStr(T_ftp)
  /\ Get(raw, "img_2") = PyStr(T_ftp)
  /\ KidsWithTag(Last(root).kids, "media") = <<>>

\* ------------------------------------------------------------ tag substitution
\* the record came out of replace_text_tags and no later stage has run
Substituted == pc = "validate"
CentreToken == <<"{{Centre_description}}">>
HasTag(v) == v.k = "str" /\ \E j \in 1..Len(v.s) : v.s[j] \in Tags
RefersOnlyToCentre(v) ==
  /\ v.k = "str"
  /\ Contains(v.s, CentreToken)
  /\ \A j \in 1..Len(v.s) : v.s[j] \in Tags => v.s[j] = "{{Centre_description}}"
\* what the Centre_description field is after substitution ('' when absent)
ResolvedCentre == GetOr(record, "Centre_description", PyStr(<<>>))

\* C21: the fields are resolved in the order title, Centre_description,
\* preheader, description. A {{Centre_description}} token in the title or in
\* Centre_description itself, which are resolved before the context holds
\* that field, is replaced by the empty string; the token in preheader or
\* description is replaced by the substituted Centre_description (its own
\* tags resolved), not by the raw column.
C21_CentreDescriptionFromContext ==
  Substituted =>
    /\ \A f \in {"title", "Centre_description"} :
         RefersOnlyToCentre(Get(raw, f)) =>
           Get(record, f) = PyStr(Replace(Get(raw, f).s, CentreToken, <<>>))
    /\ \A f \in {"preheader", "description"} :
         (RefersOnlyToCentre(Get(raw, f)) /\ ~HasTag(ResolvedCentre)) =>
           Get(record, f) = PyStr(Replace(Get(raw, f).s, CentreToken, ResolvedCentre.s))

\* Centre_description 'C{{currency}}' was resolved to 'CEUR' and the
\* description 'D{{Centre_description}}' to 'DCEUR'.
C21_Witness ==
  /\ Substituted
  /\ Get(raw, "Centre_description") = PyStr(<<"C", "{{currency}}">>)
  /\ Get(raw, "description") = PyStr(<<"D", "{{Centre_description}}">>)
  /\ Get(record, "Centre_description") = PyStr(<<"C", "E", "U", "R">>)
  /\ Get(record, "description") = PyStr(<<"D", "C", "E", "U", "R">>)

\* Centre_description refers to itself: '{{Centre_description}}x' was resolved
\* to 'x', and the preheader 'P{{Centre_description}}' to 'Px'.
C21_WitnessSelfReference ==
  /\ Substituted
  /\ Get(raw, "Centre_description") = PyStr(<<"{{Centre_description}}", "x">>)
  /\ Get(raw, "title") = PyStr(<<"T", "{{Centre_description}}">>)
  /\ Get(record, "title") = PyStr(<<"T">>)
  /\ Get(record, "preheader") = PyStr(<<"P", "x">>)

\* the column a tag stands for
TagColumn ==
  [t \in {"{{center_name}}", "{{price}}", "{{area_Min}}", "{{area_Max}}"} |->
     CASE t = "{{center_name}}" -> "center_name"
       [] t = "{{price}}" -> "price (mirror)"
       [] t = "{{area_Min}}" -> "area_sqm"
       [] t = "{{area_Max}}" -> "area_max"]
\* the text a chunk of a field stands for, taken literally
LiteralChunk(chunk) ==
  IF chunk = "{{currency}}" THEN <<"E", "U", "R">>
  ELSE IF chunk \in DOMAIN TagColumn
    THEN Strip(StrOf(GetOr(raw, TagColumn[chunk], PyStr(<<>>))))
  ELSE <<chunk>>
RECURSIVE LiteralSubstitution(_)
LiteralSubstitution(s) ==
  IF s = <<>> THEN <<>> ELSE LiteralChunk(Head(s)) \o LiteralSubstitution(Tail(s))
NoCentreToken(v) == v.k = "str" /\ ~Contains(v.s, CentreToken)

\* C22: substitution is literal and not recursive: every token of a field is
\* replaced by the text of its source and the inserted text is not scanned
\* again, so a token spelled in center_name or in the mirrored price appears
\* unchanged in the field; a field without tokens is unchanged.
C22_InsertedTextNotRescanned ==
  Substituted =>
    \A f \in {"title", "description"} :
      NoCentreToken(Get(raw, f)) =>
        Get(record, f) = PyStr(LiteralSubstitution(Get(raw, f).s))

\* the fields replace_text_tags sets in its result
ResolvedFields == {"title", "Centre_description", "preheader", "description"}

\* C23: replace_text_tags and generate_xml_feed never change the input
\* record: from the moment a record is taken from the list until the loop
\* moves on, the element of the list keeps its keys and values; the result
\* of the substitution is another record, in which every key of the input
\* other than title, Centre_description, preheader and description has the
\* value it has in the input.
C23_InputNeverMutated ==
  /\ [](Substituted =>
          /\ DOMAIN record = DOMAIN raw \cup ResolvedFields
          /\ \A key \in DOMAIN raw \ ResolvedFields : record[key] = raw[key])
  /\ [][pc # "loop" => raw' = raw]_vars

\* The substitution changed the title and added the absent preheader in its
\* result, and the input record still has the tag in its title and no
\* preheader.
C23_Witness ==
  /\ Substituted
  /\ Get(raw, "title") = PyStr(<<"{{center_name}}">>)
  /\ Get(record, "title") = PyStr(T_Mall)
  /\ "preheader" \notin DOMAIN raw
  /\ "preheader" \in DOMAIN record
  /\ Get(record, "center_name") = Get(raw, "center_name")

\* ------------------------------------------------------------ description text
\* the text of the description element of the last listing
DescriptionText == CHOOSE t \in TextsOf(Last(root), "description") : TRUE
Blank(v) == ~Truthy(v) \/ Strip(StrOf(v)) = <<>>
Trimmed(v) == Strip(StrOf(v))
\* the text the claim has formatted, from the record after substitution
CombinedSource ==
  IF Blank(Get(record, "preheader")) THEN Get(record, "description")
  ELSE IF Blank(Get(record, "description")) THEN PyStr(Trimmed(Get(record, "preheader")))
  ELSE PyStr(Trimmed(Get(record, "preheader")) \o <<"\n", "\n">>
             \o Trimmed(Get(record, "description")))

\* C24: the description of a listing is the formatted combination of the
\* substituted preheader and description: the trimmed preheader, a blank
\* line and the trimmed description when the preheader is not blank (the
\* preheader alone when the description is blank), the description alone
\* when the preheader is blank or absent.
C24_PreheaderPrepended ==
  BuiltListing =>
    /\ Cardinality(TextsOf(Last(root), "description")) = 1
    /\ DescriptionText = format_text_for_marktplaats(CombinedSource)

\* Preheader '{{currency}}' and description ' Nice ' gave the two
\* paragraphs EUR and Nice.
C24_Witness ==
  /\ BuiltListing
  /\ Get(raw, "preheader") = PyStr(<<"{{currency}}">>)
  /\ Get(raw, "description") = PyStr(<<" ", "N", "i", "c", "e", " ">>)
  /\ DescriptionText = <<"<p>", "E", "U", "R", "</p>", "<p>", "N", "i", "c", "e", "</p>">>

\* A preheader that is blank after substitution leaves the description alone.
C24_WitnessBlankPreheader ==
  /\ BuiltListing
  /\ Get(raw, "preheader") = PyStr(<<"{{area_Max}}">>)
  /\ Get(raw, "description") = PyStr(T_Nice)
  /\ DescriptionText = <<"<p>", "N", "i", "c", "e", "</p>">>

\* C25: format_text_for_marktplaats is idempotent: formatting the formatted
\* description of a listing, or the formatted input text, again gives the
\* same text; the empty text is formatted to the empty text.
C25_FormatIdempotent ==
  /\ format_text_for_marktplaats(PyStr(<<>>)) = <<>>
  /\ pc # "loop" =>
       format_text_for_marktplaats(
         PyStr(format_text_for_marktplaats(Get(raw, "description"))))
       = format_text_for_marktplaats(Get(raw, "description"))
  /\ BuiltListing =>
       format_text_for_marktplaats(PyStr(DescriptionText)) = DescriptionText

\* Two paragraphs were wrapped once: 'a\n\nb' became <p>a</p><p>b</p>.
C25_Witness ==
  /\ BuiltListing
  /\ Get(raw, "description") = PyStr(<<"a", "\n", "\n", "b">>)
  /\ "preheader" \notin DOMAIN raw
  /\ DescriptionText = <<"<p>", "a", "</p>", "<p>", "b", "</p>">>
  /\ format_text_for_marktplaats(PyStr(DescriptionText)) = DescriptionText

\* Text typed with angle brackets kept them and got line-break markers.
C25_WitnessMarkup ==
  /\ BuiltListing
  /\ Get(raw, "description") = PyStr(<<"<", "\n", ">">>)
  /\ DescriptionText = <<"<", "<br>", ">">>

\* ------------------------------------------------------------ error entries and order
\* the identifier of the record being processed: its own vendorId, or the
\* position of the record (0-based index i) plus 2
ExpectedKey ==
  IF Get(raw, "vendorId") \notin {PyNone, PyStr(<<>>), PyInt(0)} THEN Get(raw, "vendorId")
  ELSE PyStr(<<"ROW-">> \o IntToStr(i + 2))
Synthesized(key) == key.k = "str" /\ key.s # <<>> /\ Head(key.s) = "ROW-"

\* C26: every error entry is keyed by the vendorId of its record when the
\* record has one (a value other than '' and 0), and by 'ROW-<n>' with
\* n = index + 2 otherwise; the synthesized keys of different records differ.
C26_ErrorEntryKey ==
  /\ [][Len(error_details') > Len(error_details) =>
          Last(error_details').vendorId = ExpectedKey]_vars
  /\ [](\A a, b \in 1..Len(error_details) :
          (a # b /\ Synthesized(error_details[a].vendorId)
                 /\ Synthesized(error_details[b].vendorId))
            => error_details[a].vendorId # error_details[b].vendorId)

\* Three records without a vendorId were skipped with the keys ROW-2, ROW-3
\* and ROW-4.
C26_Witness ==
  /\ Returned
  /\ Len(error_details) = 3
  /\ error_details[1].vendorId = PyStr(<<"ROW-", "2">>)
  /\ error_details[2].vendorId = PyStr(<<"ROW-", "3">>)
  /\ error_details[3].vendorId = PyStr(<<"ROW-", "4">>)

\* A record with a vendorId was skipped under its own vendorId.
C26_WitnessOwnKey ==
  /\ Done
  /\ Last(trace).errs = 1
  /\ Get(raw, "vendorId") = PyStr(T_V1)
  /\ Last(error_details).vendorId = PyStr(T_V1)

\* the position in the input of the record behind each listing of the
\* document and behind each error entry, from the per-record trace
RECURSIVE PositionsOf(_, _)
PositionsOf(field, k) ==
  IF k > Len(trace) THEN <<>>
  ELSE (IF trace[k][field] = 1 THEN <<k>> ELSE <<>>) \o PositionsOf(field, k + 1)
Increasing(seq) == \A a, b \in 1..Len(seq) : a < b => seq[a] < seq[b]

\* C27: record order is kept in both outputs: the document and
\* error_details only grow at their end, one element per record at most, so
\* the listings and the error entries of two records stand in the order of
\* the records.
C27_RecordOrderPreserved ==
  /\ [][/\ IsPrefix(root, root')
        /\ IsPrefix(error_details, error_details')
        /\ Len(root') <= Len(root) + 1
        /\ Len(error_details') <= Len(error_details) + 1
        /\ i' \in {i, i + 1}]_vars
  /\ [](AtLoop =>
          /\ Len(PositionsOf("ads", 1)) = Len(root)
          /\ Len(PositionsOf("errs", 1)) = Len(error_details)
          /\ Increasing(PositionsOf("ads", 1))
          /\ Increasing(PositionsOf("errs", 1))
          /\ \A k \in 1..Len(error_details) :
               Synthesized(error_details[k].vendorId) =>
                 error_details[k].vendorId
                   = PyStr(<<"ROW-">> \o IntToStr(PositionsOf("errs", 1)[k] + 1)))

\* Of three records the first and the third became listings and the first
\* and second left error entries (the first both: it failed while it was
\* built), each output in record order.
C27_Witness ==
  /\ Returned
  /\ n = 3
  /\ Len(root) = 2
  /\ Len(error_details) = 2
  /\ PositionsOf("ads", 1) = <<1, 3>>
  /\ PositionsOf("errs", 1) = <<1, 2>>
  /\ error_details[2].vendorId = PyStr(<<"ROW-", "3">>)
  /\ KidsWithTag(root[2].kids, "priceType") # <<>>
  /\ KidsWithTag(root[1].kids, "priceType") = <<>>

\* ------------------------------------------------------------ validators called on their own
EmptyPriceType(r) == Get(r, "priceType") \in {PyNone, PyStr(<<>>)}

\* C28: validate_xsd_constraints, of src/app.py and of src/main.py, called
\* on a record whose priceType is empty or absent returns a failure.
C28_EmptyPriceTypeInvalid ==
  (pc \in {"app.validate_xsd_constraints", "main.validate_xsd_constraints"}
   /\ EmptyPriceType(record))
    => (result.exc = "" /\ ~result.ok)

\* ------------------------------------------------------------ src/main.py
\* C29: generate_xml_feed of src/main.py never aborts the batch: no
\* exception leaves the function, whatever is raised while one record is
\* processed (the overflow of a categoryId, price or area_sqm that parses to
\* infinity included) becomes one error entry for that record, and the
\* function returns only after every record was taken.
C29_MainPyBatchNeverAborts ==
  /\ pc # "aborted"
  /\ \A k \in 1..Len(trace) :
       trace[k].outcome = "Errored" => (trace[k].errs = 1 /\ trace[k].skipped = 1)
  /\ Returned => (i = n /\ Len(trace) = n)

\* ------------------------------------------------------------ the handler
Responded == handler = "responded"
UploadWasRefused == cloudinary_error # PyNone
\* the statistics of the run, under the key names of either file
RunStatistics ==
  { [total_rows |-> n, added_to_xml |-> Count("Built"),
     skipped |-> Len(error_details), errors |-> error_details],
    [total_rows_found_in_sheet |-> n, rows_added_to_xml |-> Count("Built"),
     rows_skipped |-> Len(error_details), errors |-> error_details] }
\* the feed of this request is in latest.xml
FeedSaved == latest_xml = [encoding |-> "UTF-8", ads |-> root]

C30_SavedBeforeUpload ==
  /\ handler \in {"upload", "respond"} => (Returned /\ FeedSaved)
  /\ (Responded /\ UploadWasRefused) =>
       /\ FeedSaved
       /\ response.code = 200
       /\ response.body.status = "success"
       /\ response.body.stats \in RunStatistics
       /\ response.body.cloudinary_error = cloudinary_error
       /\ response.body.cloudinary_feed_url = PyNone
  /\ (Responded /\ pc = "idle") =>
       /\ response.code = 500
       /\ response.body.status = "error"
       /\ latest_xml \in {"absent", "previous"}
       /\ trace = <<>> /\ stages = <<>> /\ root = <<>> /\ i = 0

C30_FileKept ==
  /\ handler \in {"upload", "respond", "responded"} => latest_xml' = latest_xml
  /\ handler = "fetch" => latest_xml' = latest_xml
  /\ (handler = "upload" /\ handler' # "upload") =>
       (latest_xml = [encoding |-> "UTF-8", ads |-> root]
        /\ handler' = "respond" /\ response' = response)

\* C30: the feed is written to latest.xml before the upload is attempted
\* and the upload, failed or not, leaves the file as written; after a failed
\* upload the handler answers 200 with status success, the statistics of the
\* run and the cloudinary_error; when fetching the records fails it answers
\* 500 with status error, generate_xml_feed was not called and latest.xml is
\* as it was.
C30_UploadFailureKeepsFeed == []C30_SavedBeforeUpload /\ [][C30_FileKept]_vars

\* Three records were processed, the feed was saved over the previous file,
\* the upload failed and the answer is 200 with the error and the statistics.
C30_Witness ==
  /\ Responded
  /\ n = 3
  /\ processed_count = 1
  /\ skipped_count = 2
  /\ cloudinary_error = PyStr(T_not_configured)
  /\ response.code = 200
  /\ response.body.cloudinary_error = PyStr(T_not_configured)
  /\ response.body.stats.added_to_xml = 1
  /\ response.body.stats.skipped = 2
  /\ Len(latest_xml.ads) = 1

\* Fetching the records failed: 500, and the previous file is still there.
C30_WitnessFetchFailed ==
  /\ Responded
  /\ pc = "idle"
  /\ response.code = 500
  /\ latest_xml = "previous"

====
